---- MODULE Spec2Model ----
(***************************************************************************)
(* GeminiFlow master orchestrator (multi_tool_agent/agent.py) and the      *)
(* adapters it drives (rollback_agent.py, secops_agent.py, mda_agent.py,   *)
(* da_agent.py, bta_agent.py, sca_agent.py).                               *)
(*                                                                         *)
(* Text is a sequence of units (words, digits, separators such as "/" and  *)
(* ":"); Python's split, upper, slicing and the `in` substring test are    *)
(* operators on such sequences.  A dict is a record and dict.get is Get.   *)
(* Python's None is the text None (it formats as "None" and is falsy).     *)
(* The pictographs that open some printed messages are left out.           *)
(***************************************************************************)
EXTENDS Integers, Sequences, FiniteSets, TLC

VARIABLES
    GCP_PROJECT_ID,   \* agent.py module configuration (os.getenv), "" when unset
    revisions,        \* Cloud Run: the revisions of the target service
    traffic,          \* Cloud Run: the traffic table of the target service
    template,         \* Cloud Run: the image of the service's revision template
    build,            \* Cloud Build: the status of the triggered build
    pc,               \* position of the current tool invocation
    tool,             \* which tool the current invocation runs
    final_summary,    \* execute_smart_deploy_workflow: the report lines so far
    calls,            \* adapters invoked by the current invocation, in order
    api,              \* Cloud Run requests sent by the current invocation
    loc,              \* locals of the current invocation (adapter reports)
    pre,              \* the service when the current invocation started
    ret,              \* what the current invocation returned, or the events
                      \* a streaming request has yielded
    runs,             \* number of tool invocations started
    suspended,        \* frame of the other invocation, when two run concurrently
    runner,           \* main_api.py: the module's Runner, FALSE while it is None
    sys_stdout,       \* sys.stdout: 0 for the stdout of the process, k for the
                      \* k-th PrintCapture
    captures          \* the PrintCapture objects created, in order of creation

vars == <<GCP_PROJECT_ID, revisions, traffic, template, build, pc, tool,
          final_summary, calls, api, loc, pre, ret, runs, suspended,
          runner, sys_stdout, captures>>

----------------------------------------------------------------------------
(* Bounds *)

MaxRuns == 2
MaxInitRevisions == 2
MaxListed == 4
MaxEvents == 2

----------------------------------------------------------------------------
(* Python values and text *)

None == <<"None">>

Truthy(x) == x # <<>> /\ x # None

Get(d, k, default) == IF k \in DOMAIN d THEN d[k] ELSE default

Last(s) == s[Len(s)]

Min(a, b) == IF a < b THEN a ELSE b

\* needle in haystack: a contiguous occurrence
Contains(haystack, needle) ==
    \E i \in 0..(Len(haystack) - Len(needle)) :
        \A j \in 1..Len(needle) : haystack[i + j] = needle[j]

\* s.split(sep): the pieces between the occurrences of the unit sep
RECURSIVE Split(_, _)
Split(s, sep) ==
    IF \A i \in DOMAIN s : s[i] # sep
    THEN <<s>>
    ELSE LET i == CHOOSE k \in DOMAIN s :
                      s[k] = sep /\ \A m \in 1..(k - 1) : s[m] # sep
         IN  <<SubSeq(s, 1, i - 1)>> \o Split(SubSeq(s, i + 1, Len(s)), sep)

Digit(n) == <<"0", "1", "2", "3", "4", "5", "6", "7", "8", "9">>[n + 1]

\* str(n) for a non-negative integer: its decimal digits
RECURSIVE Str(_)
Str(n) == IF n < 10 THEN <<Digit(n)>> ELSE Str(n \div 10) \o <<Digit(n % 10)>>

\* "sep".join(lines)
RECURSIVE Join(_, _)
Join(lines, sep) ==
    IF lines = <<>> THEN <<>>
    ELSE IF Len(lines) = 1 THEN lines[1]
    ELSE lines[1] \o <<sep>> \o Join(Tail(lines), sep)

----------------------------------------------------------------------------
(* agent.py configuration *)

TARGET_APP_CLOUD_RUN_REGION == <<"us-central1">>
TARGET_APP_CLOUD_RUN_SERVICE_NAME == <<"geminiflow-hello-world-svc">>

ProjectText == IF GCP_PROJECT_ID = "" THEN None ELSE <<GCP_PROJECT_ID>>

----------------------------------------------------------------------------
(* Cloud Run: revision names *)

ServicePath(project_id, location, service_id) ==
    <<"projects", "/">> \o project_id \o <<"/", "locations", "/">> \o location
        \o <<"/", "services", "/">> \o service_id

RevisionShortName(k) == <<"rev">> \o Str(k)

RevisionFullName(k) ==
    ServicePath(<<"proj">>, TARGET_APP_CLOUD_RUN_REGION,
                TARGET_APP_CLOUD_RUN_SERVICE_NAME)
        \o <<"/", "revisions", "/">> \o RevisionShortName(k)

Revision(k) == [name |-> RevisionFullName(k), create_time |-> k]

ShortNames == {Last(Split(r.name, "/")) : r \in revisions}

RECURSIVE SumPercent(_)
SumPercent(t) == IF t = <<>> THEN 0 ELSE t[1].percent + SumPercent(Tail(t))

----------------------------------------------------------------------------
(* rollback_agent.py *)

\* sorted(revs, key=lambda r: r.create_time, reverse=True): stable, by
\* insertion from the left
RECURSIVE InsertDesc(_, _)
InsertDesc(r, sorted) ==
    IF sorted = <<>> THEN <<r>>
    ELSE IF sorted[1].create_time < r.create_time
         THEN <<r>> \o sorted
         ELSE <<sorted[1]>> \o InsertDesc(r, Tail(sorted))

SortedByCreateTimeDesc_as_listed(revs) == revs

RECURSIVE SortedByCreateTimeDesc(_)
SortedByCreateTimeDesc(revs) ==
    IF revs = <<>> THEN <<>>
    ELSE InsertDesc(revs[Len(revs)],
                    SortedByCreateTimeDesc(SubSeq(revs, 1, Len(revs) - 1)))

FewerThanTwoMsg ==
    <<"Fewer than two revisions exist; cannot determine a previous stable revision to roll back to.">>

\* The faults of the revision listing: NotFound (the service does not
\* exist) or another exception
ListFaults == IF revisions = {} THEN {"none", "not_found", "raise"} ELSE {"none", "raise"}

\* The revisions by ascending creation time
RECURSIVE Ascending(_)
Ascending(revs) ==
    IF revs = {} THEN <<>>
    ELSE LET newest == CHOOSE r \in revs : \A q \in revs : q.create_time <= r.create_time
         IN  Append(Ascending(revs \ {newest}), newest)

Reverse(s) == [i \in DOMAIN s |-> s[Len(s) + 1 - i]]

Rotate(s, k) == SubSeq(s, k + 1, Len(s)) \o SubSeq(s, 1, k)

\* The listings list_revisions can return: the API promises no order; the
\* model takes every rotation of the ascending and of the descending order
\* (all orders, for up to three revisions)
Listings ==
    LET asc == Ascending(revisions) IN
    IF asc = <<>> THEN {<<>>}
    ELSE {Rotate(asc, k) : k \in 0..(Len(asc) - 1)}
           \cup {Rotate(Reverse(asc), k) : k \in 0..(Len(asc) - 1)}

get_previous_stable_revision(project_id, location, service_id, fault, listing) ==
    IF ~(Truthy(project_id) /\ Truthy(location) /\ Truthy(service_id))
    THEN [status |-> "ERROR",
          error_message |-> <<"Project ID, Location, and Service ID are required.">>]
    ELSE IF fault = "not_found"
    THEN [status |-> "ERROR",
          error_message |-> <<"Service '">> \o service_id
                              \o <<"' not found in location '">> \o location \o <<"'.">>]
    ELSE IF fault = "raise"
    THEN [status |-> "ERROR",
          error_message |-> <<"Rollback Agent: Error getting previous stable revision: ", "exception">>]
    ELSE LET revs == SortedByCreateTimeDesc(listing) IN
         IF Len(revs) < 2
         THEN [status |-> "FAILURE", error_message |-> FewerThanTwoMsg]
         ELSE [status |-> "SUCCESS",
               previous_stable_revision_name |-> revs[2].name,
               message |-> <<"Identified previous stable revision '">>
                             \o Last(Split(revs[2].name, "/")) \o <<"'.">>]

\* The faults of the service client during a redirect: update_service
\* raises, or the wait on the operation raises although the update has been
\* applied; get_service raises when the service does not exist
RedirectFaults == {"none", "update_raises", "wait_raises_applied"}

\* revision_name.split('/')[-1]: the short name used in the traffic target
RedirectShortName_unsplit(revision_name) == revision_name
RedirectShortName(revision_name) == Last(Split(revision_name, "/"))

\* service.traffic = [traffic_target]: the fetched table is replaced
NewTrafficTable_appended(current, traffic_target) == Append(current, traffic_target)
NewTrafficTable(current, traffic_target) == <<traffic_target>>

\* Result of the redirect: the returned dict, the requests sent, and the
\* traffic table afterwards.  Cloud Run rejects a target that is not a
\* revision of the service.
redirect_traffic_to_revision(project_id, location, service_id, revision_name, fault) ==
    IF ~(Truthy(project_id) /\ Truthy(location) /\ Truthy(service_id) /\ Truthy(revision_name))
    THEN [ret |-> [status |-> "ERROR",
                   error_message |-> <<"Project ID, Location, Service ID, and Revision Name are required.">>],
          api |-> <<>>, traffic |-> traffic]
    ELSE
    LET revision_short_name == RedirectShortName(revision_name)
        service_full_path == ServicePath(project_id, location, service_id)
        get_req == [op |-> "get_service", name |-> service_full_path]
        new_traffic == NewTrafficTable(traffic,
                           [revision |-> revision_short_name, percent |-> 100])
        upd_req == [op |-> "update_service", name |-> service_full_path,
                    traffic |-> new_traffic, update_mask |-> {"traffic"}]
        error(e) == [status |-> "ERROR",
                     error_message |-> <<"Rollback Agent: Error redirecting traffic: ", e>>]
    IN  IF revisions = {}
        THEN [ret |-> error("get_service"), api |-> <<get_req>>, traffic |-> traffic]
        ELSE IF fault = "update_raises" \/ revision_short_name \notin ShortNames
        THEN [ret |-> error("update_service"), api |-> <<get_req, upd_req>>,
              traffic |-> traffic]
        ELSE IF fault = "wait_raises_applied"
        THEN [ret |-> error("timeout"), api |-> <<get_req, upd_req>>,
              traffic |-> new_traffic]
        ELSE [ret |-> [status |-> "SUCCESS",
                       message |-> <<"Successfully rolled back service '">> \o service_id
                                     \o <<"' to direct all traffic to revision '">>
                                     \o revision_short_name \o <<"'.">>],
              api |-> <<get_req, upd_req>>, traffic |-> new_traffic]

----------------------------------------------------------------------------
(* sca_agent.py *)

TARGET_GITHUB_REPO_FULL_NAME == <<"komfysach", "/", "gemini-flow-hello-world">>
TARGET_APP_TRIGGER_ID == <<"deploy-hello-world-app">>

\* The faults of the GitHub client; "no_token" is GITHUB_PAT being unset
ScaFaults == {"none", "no_token", "unknown_object", "raise"}

CommitSha == <<"c1">>

get_latest_commit_sha(repo_full_name, branch_name, fault) ==
    IF fault = "no_token"
    THEN [status |-> "ERROR",
          error_message |-> <<"GitHub Personal Access Token (GITHUB_PAT) not configured.">>]
    ELSE IF ~Truthy(repo_full_name) \/ ~Truthy(branch_name)
    THEN [status |-> "ERROR",
          error_message |-> <<"Repository full name and branch name are required.">>]
    ELSE IF fault = "unknown_object"
    THEN [status |-> "FAILURE",
          error_message |-> <<"Could not find repository '">> \o repo_full_name
                              \o <<"' or branch '">> \o branch_name
                              \o <<"'. Please check names and PAT permissions.">>]
    ELSE IF fault = "raise"
    THEN [status |-> "ERROR",
          error_message |-> <<"An unexpected error occurred while fetching commit SHA: ", "exception">>]
    ELSE [status |-> "SUCCESS",
          commit_sha |-> CommitSha,
          message |-> <<"Successfully fetched latest commit SHA '">> \o CommitSha
                        \o <<"' for ">> \o repo_full_name \o <<"@">> \o branch_name \o <<".">>]

----------------------------------------------------------------------------
(* bta_agent.py *)

ImageName == <<"us-central1-docker.pkg.dev/proj/gemini-flow-apps/gemini-flow-hello-world", ":", "c1">>
ImageDigest == <<"sha256:", "d1">>

\* An exception that leaves the function instead of a returned dict
Escapes(e) == [exception |-> e]

Raised(r) == "exception" \in DOMAIN r

\* What Cloud Build does with the triggered build: the client cannot be
\* built (no credentials), the client raises, or the
\* build ends with a status; a successful build lists no image, an image
\* without a digest, or an image with its digest; the test results in the
\* artifact bucket all passed, or contain failures.
BuildEnv(fault, build_status, images, tests) ==
    [fault |-> fault, build_status |-> build_status, images |-> images, tests |-> tests]

BuildEnvs ==
    {BuildEnv("client_raises", "SUCCESS", "none", "passed"),
     BuildEnv("raise", "SUCCESS", "none", "passed"),
     BuildEnv("none", "FAILURE", "none", "passed"),
     BuildEnv("none", "SUCCESS", "none", "passed"),
     BuildEnv("none", "SUCCESS", "nodigest", "passed"),
     BuildEnv("none", "SUCCESS", "nodigest", "failed"),
     BuildEnv("none", "SUCCESS", "digest", "passed")}

extract_test_results(tests) ==
    IF tests = "absent"
    THEN [test_status |-> "NO_TESTS",
          message |-> <<"No test results found for this build.">>]
    ELSE IF tests = "passed"
    THEN [test_status |-> "PASSED", tests_failed |-> 0,
          failure_summary |-> <<"All tests passed successfully.">>]
    ELSE [test_status |-> "FAILED", tests_failed |-> 1,
          failure_summary |-> <<"gemini: one test failed">>]

trigger_build_and_monitor(trigger_id, project_id, repo_name, branch_name, commit_sha, env) ==
    \* commit_sha[:8] in the opening print
    IF commit_sha = None
    THEN Escapes("TypeError")
    ELSE IF ~(Truthy(trigger_id) /\ Truthy(project_id) /\ Truthy(repo_name)
            /\ Truthy(branch_name) /\ Truthy(commit_sha))
    THEN [status |-> "ERROR",
          error_message |-> <<"Missing required parameters for build trigger.">>]
    \* cloudbuild_v1.CloudBuildClient() is built before the try block
    ELSE IF env.fault = "client_raises"
    THEN Escapes("DefaultCredentialsError")
    ELSE IF env.fault = "raise"
    THEN [status |-> "ERROR",
          error_message |-> <<"BTA Agent: Error during build trigger or monitoring: ", "exception">>]
    ELSE IF env.build_status = "SUCCESS"
    THEN LET image_info ==
                 IF env.images = "none" THEN <<>>
                 ELSE <<[name |-> ImageName,
                         digest |-> IF env.images = "digest" THEN ImageDigest ELSE <<>>]>>
         IN  [status |-> "SUCCESS",
              message |-> <<"Build completed successfully for ">> \o repo_name
                            \o <<":">> \o branch_name,
              build_id |-> <<"b1">>,
              image_uri_commit |-> IF image_info = <<>> THEN <<>> ELSE image_info[1].name,
              details |-> [results |-> [images |-> image_info]],
              test_results |-> extract_test_results(env.tests)]
    ELSE [status |-> "FAILURE",
          error_message |-> <<"Build failed with status: ", env.build_status>>,
          build_id |-> <<"b1">>]

----------------------------------------------------------------------------
(* secops_agent.py *)

max_retries == 3

Finding(sev) == [severity |-> sev, cve |-> <<"CVE-", sev>>]

\* What one list_occurrences query can yield: the findings, or an exception
QueryResults ==
    {[raises |-> FALSE, occurrences |-> f] :
        f \in {<<>>, <<Finding("HIGH")>>, <<Finding("HIGH"), Finding("CRITICAL")>>}}
      \cup {[raises |-> TRUE, occurrences |-> <<>>]}

\* The outcomes of the max_retries queries one call may make; what the
\* service would answer after the first query with findings is never asked
\* for, and is left empty
ScanEnvs ==
    {q \in [1..max_retries -> QueryResults] :
        \A i, j \in 1..max_retries :
            (i < j /\ (q[i].raises \/ q[i].occurrences # <<>>))
                => (~q[j].raises /\ q[j].occurrences = <<>>)}

QueryLoop_single_query(queries, i) ==
    IF queries[i].raises
    THEN [raised |-> TRUE, vulnerabilities |-> <<>>, n |-> i]
    ELSE [raised |-> FALSE, vulnerabilities |-> queries[i].occurrences, n |-> i]

\* The query loop: stop at the first query with findings; i is the query
\* about to be made.  Returns the findings and the number of queries made,
\* or raised.
RECURSIVE QueryLoop(_, _)
QueryLoop(queries, i) ==
    IF i > max_retries
    THEN [raised |-> FALSE, vulnerabilities |-> <<>>, n |-> max_retries]
    ELSE IF queries[i].raises
    THEN [raised |-> TRUE, vulnerabilities |-> <<>>, n |-> i]
    ELSE IF queries[i].occurrences # <<>>
    THEN [raised |-> FALSE, vulnerabilities |-> queries[i].occurrences, n |-> i]
    ELSE QueryLoop(queries, i + 1)

get_vulnerability_scan_results(image_uri_with_digest, project_id, queries) ==
    IF ~Truthy(project_id)
    THEN [status |-> "ERROR",
          error_message |-> <<"GCP_PROJECT_ID environment variable not set.">>]
    ELSE IF ~Contains(image_uri_with_digest, <<"@", "sha256:">>)
    THEN [status |-> "ERROR",
          error_message |-> <<"Invalid image URI. Must include a sha256 digest. Got: ">>
                              \o image_uri_with_digest]
    ELSE LET r == QueryLoop(queries, 1) IN
         IF r.raised
         THEN [status |-> "ERROR",
               error_message |-> <<"Security Agent: Error querying Artifact Analysis API: ", "exception">>]
         ELSE [status |-> "SUCCESS",
               vulnerability_count |-> Len(r.vulnerabilities),
               vulnerabilities |-> r.vulnerabilities,
               message |-> <<"Scan results retrieved. Found ">> \o Str(Len(r.vulnerabilities))
                             \o <<" vulnerabilities.">>]

\* What Gemini answers to the summarization prompt: free text, or the call
\* raises.  The text does not depend on the findings.
GeminiTexts ==
    {<<"one", " ", "critical", " ", "issue">>,
     <<"no", " ", "blocking", " ", "issues">>}

GeminiAnswers == GeminiTexts \cup {<<"raise">>}

summarize_vulnerabilities_with_gemini(scan_results, gemini) ==
    IF Get(scan_results, "status", "None") # "SUCCESS"
    THEN <<"Could not generate summary because the vulnerability scan did not complete successfully.">>
    ELSE LET vulnerabilities == Get(scan_results, "vulnerabilities", <<>>) IN
         IF vulnerabilities = <<>>
         THEN <<"Security Scan Summary: No vulnerabilities were found. The image is considered clean.">>
         ELSE IF gemini = <<"raise">>
         THEN <<"Could not summarize vulnerabilities due to an error. Found ">>
                \o Str(Len(vulnerabilities)) \o <<" vulnerabilities.">>
         ELSE <<"Security Scan Summary:", "\n">> \o gemini

\* str.upper(), unit by unit
UpperUnit(u) ==
    CASE u = "critical" -> "CRITICAL"
      [] u = "one" -> "ONE"
      [] u = "no" -> "NO"
      [] u = "issue" -> "ISSUE"
      [] u = "issues" -> "ISSUES"
      [] u = "blocking" -> "BLOCKING"
      [] u = "Security Scan Summary:" -> "SECURITY SCAN SUMMARY:"
      [] u = "Security Scan Summary: No vulnerabilities were found. The image is considered clean."
            -> "SECURITY SCAN SUMMARY: NO VULNERABILITIES WERE FOUND. THE IMAGE IS CONSIDERED CLEAN."
      [] u = "Could not summarize vulnerabilities due to an error. Found "
            -> "COULD NOT SUMMARIZE VULNERABILITIES DUE TO AN ERROR. FOUND "
      [] u = " vulnerabilities." -> " VULNERABILITIES."
      [] OTHER -> u

Upper(s) == [i \in DOMAIN s |-> UpperUnit(s[i])]

----------------------------------------------------------------------------
(* da_agent.py *)

ServiceUrl == <<"https://geminiflow-hello-world-svc.run.app">>

\* What happens to the deploy: the existence check or the create/update call
\* raises (nothing changes); the wait on the operation raises after the new
\* revision was created, which is not serving; the IAM step raises after the
\* service was updated and the new revision serves; or everything succeeds.
DeployFaults == {"none", "check_raises", "wait_raises_created", "iam_raises"}

NextRevision == Revision(Cardinality(revisions) + 1)

\* Cloud Run after an update/create with the new template: a new revision,
\* and the traffic table (absent from the request) at its default, all
\* traffic to the latest revision.
Deployed(image_uri, serving) ==
    [revisions |-> revisions \cup {NextRevision},
     traffic |-> IF serving \/ revisions = {}
                 THEN <<[revision |-> Last(Split(NextRevision.name, "/")), percent |-> 100]>>
                 ELSE traffic,
     template |-> image_uri]

NotDeployed == [revisions |-> revisions, traffic |-> traffic, template |-> template]

\* Result of the deploy: the returned dict and the service afterwards
deploy_to_cloud_run(project_id, region, service_name, image_uri, fault) ==
    IF ~(Truthy(project_id) /\ Truthy(region) /\ Truthy(service_name) /\ Truthy(image_uri))
    THEN [ret |-> [status |-> "ERROR",
                   error_message |-> <<"Missing required parameters: ", "...">>],
          svc |-> NotDeployed, api |-> <<>>]
    ELSE
    LET failure(msg) == [status |-> "FAILURE", service_name |-> service_name,
                         error_message |-> msg]
        unexpected == <<"An unexpected error occurred during Cloud Run deployment for service '">>
                        \o service_name \o <<"': ", "exception">>
        get_req == [op |-> "get_service",
                    name |-> ServicePath(project_id, region, service_name)]
        dep_req == [op |-> IF revisions = {} THEN "create_service" ELSE "update_service",
                    name |-> ServicePath(project_id, region, service_name),
                    image |-> image_uri, update_mask |-> {}]
    IN  CASE fault = "check_raises" ->
               [ret |-> failure(<<"Error during service existence check or initial operation for '">>
                                  \o service_name \o <<"': ", "exception">>),
                svc |-> NotDeployed, api |-> <<get_req>>]
          [] fault = "wait_raises_created" ->
               [ret |-> failure(unexpected), svc |-> Deployed(image_uri, FALSE),
                api |-> <<get_req, dep_req>>]
          [] fault = "iam_raises" ->
               [ret |-> failure(unexpected), svc |-> Deployed(image_uri, TRUE),
                api |-> <<get_req, dep_req>>]
          [] OTHER ->
               [ret |-> [status |-> "SUCCESS", service_name |-> service_name,
                         service_url |-> ServiceUrl,
                         message |-> <<"Service '">> \o service_name
                                       \o <<"' ">>
                                       \o <<IF revisions = {} THEN "created" ELSE "updated">>
                                       \o <<" successfully.">>],
                svc |-> Deployed(image_uri, TRUE), api |-> <<get_req, dep_req>>]

----------------------------------------------------------------------------
(* mda_agent.py *)

\* The label the orchestrator looks for in the health report
ErrorCountLabel == "Error Count (4xx+5xx): "

\* What Cloud Monitoring answers: the sums over the window, or an exception
\* (the report then carries the counts read so far)
MetricsEnvs ==
    [fault : {"none"}, request_count : {20}, error_count : {0, 10}]
      \cup [fault : {"raise"}, request_count : {20}, error_count : {0}]

get_cloud_run_metrics(project_id, service_id, location, time_window_minutes, env) ==
    IF ~(Truthy(project_id) /\ Truthy(service_id) /\ Truthy(location))
    THEN [status |-> "ERROR",
          error_message |-> <<"Project ID, Service ID, and Location are required.">>]
    ELSE LET metrics_data == [request_count |-> env.request_count,
                              error_count |-> env.error_count]
         IN  IF env.fault = "raise"
             THEN [status |-> "ERROR",
                   error_message |-> <<"MDA: Error fetching metrics: ", "exception">>,
                   metrics |-> metrics_data]
             ELSE [status |-> "SUCCESS", metrics |-> metrics_data,
                   time_window_minutes |-> time_window_minutes,
                   message |-> <<"Metrics fetched successfully.">>]

\* The text payloads the service may have logged in the window
LogPayloads ==
    {<<"GET / 200">>, <<"panic: ", ErrorCountLabel, "0">>}

LogEntry(payload) ==
    [timestamp |-> <<"2025-06-01T10:00:00+00:00">>, severity |-> <<"INFO">>,
     text_payload |-> payload]

\* What Cloud Logging answers: at most max_entries entries, or an exception
LogsEnvs ==
    [fault : {"none"}, entries : {<<LogEntry(p)>> : p \in LogPayloads}]
      \cup [fault : {"raise"}, entries : {<<>>}]

get_cloud_run_logs(project_id, service_id, location, time_window_minutes, max_entries, env) ==
    IF ~(Truthy(project_id) /\ Truthy(service_id) /\ Truthy(location))
    THEN [status |-> "ERROR",
          error_message |-> <<"Project ID, Service ID, and Location are required.">>]
    ELSE IF env.fault = "raise"
    THEN [status |-> "ERROR",
          error_message |-> <<"MDA: Error fetching logs: ", "exception">>,
          log_entries |-> <<>>]
    ELSE LET entries_data == SubSeq(env.entries, 1, Min(Len(env.entries), max_entries))
         IN  [status |-> "SUCCESS", log_entries |-> entries_data,
              message |-> <<"Fetched ">> \o Str(Len(entries_data)) \o <<" log entries.">>]

\* payload_str[:150]
PayloadCut == 150

\* one "  - [timestamp] [severity] payload" line per log entry
LogLine(entry) ==
    LET payload_str == IF "text_payload" \in DOMAIN entry THEN entry.text_payload
                       ELSE IF "json_payload" \in DOMAIN entry THEN entry.json_payload
                       ELSE <<"N/A">>
    IN  <<"  - [">> \o Get(entry, "timestamp", None) \o <<"] [">>
          \o Get(entry, "severity", None) \o <<"] ">>
          \o SubSeq(payload_str, 1, Min(Len(payload_str), PayloadCut))

\* the value of a metric as the f-string prints it
MetricText(metrics, k) == IF k \in DOMAIN metrics THEN Str(metrics[k]) ELSE <<"N/A">>

generate_health_report_stateful(service_id, metrics_report, logs_report) ==
    <<"Health Report Data for Service: ">> \o service_id \o <<"\n", "evaluated at ", pc>>
generate_health_report(service_id, metrics_report, logs_report) ==
    LET head == <<<<"Health Report Data for Service: ">> \o service_id \o <<"\n">>>>
        metrics_part ==
            IF Get(metrics_report, "status", "None") = "SUCCESS"
            THEN LET metrics == Get(metrics_report, "metrics", <<>>) IN
                 << <<"Metrics:">>,
                    <<"  - ", "Time Window: ">> \o Str(metrics_report.time_window_minutes)
                        \o <<" minutes">>,
                    <<"  - ", "Request Count: ">> \o MetricText(metrics, "request_count"),
                    <<"  - ", ErrorCountLabel>> \o MetricText(metrics, "error_count"),
                    <<"  - ", "P50 Latency (ms, mean proxy): ">> \o None,
                    <<"  - ", "P95 Latency (ms, rough proxy): ">> \o None >>
            ELSE << <<"Metrics: Error - ">>
                      \o Get(metrics_report, "error_message", <<"Could not fetch metrics.">>) >>
        logs_part ==
            IF Get(logs_report, "status", "None") = "SUCCESS"
            THEN LET log_entries == Get(logs_report, "log_entries", <<>>) IN
                 << <<"\n", "Recent Logs:">> >>
                 \o (IF log_entries # <<>>
                     THEN [i \in DOMAIN log_entries |-> LogLine(log_entries[i])]
                     ELSE << <<"  - No recent log entries found.">> >>)
            ELSE << <<"\n", "Logs: Error - ">>
                      \o Get(logs_report, "error_message", <<"Could not fetch logs.">>) >>
    IN  Join(head \o metrics_part \o logs_part, "\n")

----------------------------------------------------------------------------
(* agent.py: execute_rollback_workflow *)

Call(fn, args) == [fn |-> fn, args |-> args]

CallCount(fn) == Cardinality({i \in DOMAIN calls : calls[i].fn = fn})

\* What the platform does during one rollback workflow
RollbackEnvs ==
    [list_fault : ListFaults, listing : Listings, redirect_fault : RedirectFaults]

RollbackNotIdentifiedMsg ==
    <<"Rollback FAILED: Could not identify a previous stable revision. Reason: ">>

RollbackRedirectFailedMsg_as_not_identified ==
    <<"Rollback FAILED: Could not identify a previous stable revision. Reason: ">>
RollbackRedirectFailedMsg ==
    <<"Rollback FAILED: Attempted to redirect traffic, but failed. Reason: ">>

RollbackSuccessMsg(service_id, revision_short_name) ==
    <<"SUCCESS: Service '">> \o service_id
        \o <<"' has been rolled back to stable revision '">> \o revision_short_name
        \o <<"'. Your service is now running the previous stable version and is accessible to users.">>

NoReport == [status |-> "NOT_CALLED"]

\* stable_rev_report.get("status") != "SUCCESS"
RevisionNotIdentified_error_only(stable_rev_report) ==
    Get(stable_rev_report, "status", "None") = "ERROR"
RevisionNotIdentified(stable_rev_report) ==
    Get(stable_rev_report, "status", "None") # "SUCCESS"

\* Result of the workflow: the returned text, the adapters it invoked, the
\* requests they sent, the two adapter reports and the traffic table
\* afterwards.
execute_rollback_workflow(service_id, location, env) ==
    LET find_args == [project_id |-> ProjectText, location |-> location,
                      service_id |-> service_id]
        stable_rev_report ==
            get_previous_stable_revision(ProjectText, location, service_id,
                                         env.list_fault, env.listing)
    IN  IF RevisionNotIdentified(stable_rev_report)
        THEN [summary |-> RollbackNotIdentifiedMsg
                            \o Get(stable_rev_report, "error_message", None),
              calls |-> <<Call("get_previous_stable_revision", find_args)>>,
              api |-> <<>>, traffic |-> traffic,
              stable_rev_report |-> stable_rev_report, redirect_report |-> NoReport]
        ELSE
        LET revision_to_restore ==
                Get(stable_rev_report, "previous_stable_revision_name", None)
            revision_short_name ==
                IF Truthy(revision_to_restore)
                THEN Last(Split(revision_to_restore, "/")) ELSE <<"unknown">>
            r == redirect_traffic_to_revision(ProjectText, location, service_id,
                                              revision_to_restore, env.redirect_fault)
            both == <<Call("get_previous_stable_revision", find_args),
                      Call("redirect_traffic_to_revision",
                           [project_id |-> ProjectText, location |-> location,
                            service_id |-> service_id,
                            revision_name |-> revision_to_restore])>>
        IN  [summary |-> IF r.ret.status = "SUCCESS"
                         THEN RollbackSuccessMsg(service_id, revision_short_name)
                         ELSE RollbackRedirectFailedMsg
                                \o Get(r.ret, "error_message", None),
             calls |-> both, api |-> r.api, traffic |-> r.traffic,
             stable_rev_report |-> stable_rev_report, redirect_report |-> r.ret]

----------------------------------------------------------------------------
(* agent.py: execute_health_check_workflow *)

HealthEnvs == [metrics : MetricsEnvs, logs : LogsEnvs]

execute_health_check_workflow_stops_on_error(service_id, location, time_window_minutes, max_log_entries, env) ==
    LET metrics_report == get_cloud_run_metrics(ProjectText, service_id, location,
                                                time_window_minutes, env.metrics)
        logs_report == get_cloud_run_logs(ProjectText, service_id, location,
                                          time_window_minutes, max_log_entries, env.logs)
    IN  IF Get(metrics_report, "status", "None") = "ERROR"
        THEN [report |-> generate_health_report(service_id, metrics_report, NoReport),
              calls |-> <<Call("get_cloud_run_metrics", [service_id |-> service_id]),
                          Call("generate_health_report", [service_id |-> service_id])>>,
              metrics_report |-> metrics_report, logs_report |-> NoReport]
        ELSE [report |-> generate_health_report(service_id, metrics_report, logs_report),
              calls |-> <<Call("get_cloud_run_metrics", [service_id |-> service_id]),
                          Call("get_cloud_run_logs", [service_id |-> service_id]),
                          Call("generate_health_report", [service_id |-> service_id])>>,
              metrics_report |-> metrics_report, logs_report |-> logs_report]

\* Result of the workflow: the formatter's text, the adapters invoked and
\* the two adapter reports
execute_health_check_workflow(service_id, location, time_window_minutes, max_log_entries, env) ==
    LET metrics_report == get_cloud_run_metrics(ProjectText, service_id, location,
                                                time_window_minutes, env.metrics)
        logs_report == get_cloud_run_logs(ProjectText, service_id, location,
                                          time_window_minutes, max_log_entries, env.logs)
    IN  [report |-> generate_health_report(service_id, metrics_report, logs_report),
         calls |-> <<Call("get_cloud_run_metrics", [service_id |-> service_id]),
                     Call("get_cloud_run_logs", [service_id |-> service_id]),
                     Call("generate_health_report", [service_id |-> service_id])>>,
         metrics_report |-> metrics_report, logs_report |-> logs_report]

\* the post-deploy window and the default number of log entries
PostDeployWindowMinutes == 5
DefaultMaxLogEntries == 5

----------------------------------------------------------------------------
(* agent.py: execute_smart_deploy_workflow, the report lines *)

\* report.get('message', report.get('error_message'))
MessageOf(report) == Get(report, "message", Get(report, "error_message", None))

ScaLine(sca_report) == <<"1. ", "SCA Report: ">> \o MessageOf(sca_report)

BtaLine(bta_report) == <<"2. ", "BTA Report: ">> \o MessageOf(bta_report)

TestStatusLine(bta_report) ==
    <<"   ", "Test Status: ">>
      \o Get(Get(bta_report, "test_results", <<>>), "failure_summary",
             <<"Tests not processed.">>)

ScanFailedLine(scan_results) ==
    <<"3. ", "Security Scan Report: FAILED to get scan results. Reason: ">>
      \o Get(scan_results, "error_message", None)

ScanErrorHaltLine == <<"Deployment HALTED due to security scan error.">>

SummaryLine(summary) == <<"3. ">> \o summary

CriticalHaltLine == <<"Deployment HALTED due to CRITICAL vulnerabilities found.">>

ScanSkippedLine_unnumbered ==
    <<"   ", "Security Scan Report: SKIPPED - Could not determine image URI with digest from BTA report.">>
ScanSkippedLine ==
    <<"3. ", "Security Scan Report: SKIPPED - Could not determine image URI with digest from BTA report.">>

DeployFailedLine(da_report) ==
    <<"4. ", "Deployment: FAILED - ">>
      \o Get(da_report, "error_message", <<"Unknown deployment error">>)

RollbackLine(rollback_summary) == <<"   ", "Automatic Rollback: ">> \o rollback_summary

DeployContinuityLine ==
    <<"**Service Continuity Maintained**: While the new deployment failed, your service has been automatically rolled back to the previous stable version and is still running.">>

NextStepsLine ==
    <<"**Next Steps**: Review the deployment logs and fix any issues before attempting to deploy again.">>

DeployLine(da_report) == <<"4. ", "Deployment: ">> \o MessageOf(da_report)

HealthFailedLine ==
    <<"5. ", "Post-Deployment Health Check: FAILED - Errors detected after deployment.">>

HealthContinuityLine ==
    <<"**Service Continuity Maintained**: Health check failed, but your service has been automatically rolled back to the previous stable version and is still running.">>

HealthPassedLine ==
    <<"5. ", "Post-Deployment Health Check: PASSED - No immediate issues detected.">>

WorkflowStatusLine == <<"6. ", "Workflow Status: COMPLETED">>

UrlLines(deployment_url) ==
    << <<>>,
       <<"**DEPLOYMENT URL: ">> \o deployment_url \o <<"**">>,
       <<"Your application is now live and accessible at the above URL!">> >>

\* sca_report.get("status") != "SUCCESS"
ScaFailed_error_only(sca_report) == Get(sca_report, "status", "None") = "ERROR"
ScaFailed(sca_report) == Get(sca_report, "status", "None") # "SUCCESS"

\* bta_report.get("status") != "SUCCESS"
BtaFailed_or_tests_failed(bta_report) ==
    \/ Get(bta_report, "status", None) # "SUCCESS"
    \/ Get(Get(bta_report, "test_results", <<>>), "test_status", None) = "FAILED"
BtaFailed_error_only(bta_report) == Get(bta_report, "status", "None") = "ERROR"
BtaFailed(bta_report) == Get(bta_report, "status", "None") # "SUCCESS"

\* scan_results.get("status") != "SUCCESS"
ScanFailed_failure_only(scan_results) == Get(scan_results, "status", "None") = "FAILURE"
ScanFailed(scan_results) == Get(scan_results, "status", "None") # "SUCCESS"

\* da_report.get("status") != "SUCCESS"
DeployFailed_error_only(da_report) == Get(da_report, "status", "None") = "ERROR"
DeployFailed(da_report) == Get(da_report, "status", "None") # "SUCCESS"

\* "CRITICAL" in summary.upper()
SummarySaysCritical(summary) == Contains(Upper(summary), <<"CRITICAL">>)

\* "Error Count (4xx+5xx): 0" not in health_check_raw_data
HealthCheckFailed(health_check_raw_data) ==
    ~Contains(health_check_raw_data, <<ErrorCountLabel, "0">>)

----------------------------------------------------------------------------
(* State machine *)

Service == [revisions |-> revisions, traffic |-> traffic, template |-> template]

\* The locals of an invocation before it has run
EmptyLoc ==
    [target_repository_name |-> <<>>, target_branch_name |-> <<>>,
     steps |-> <<>>,
     sca_report |-> NoReport, bta_report |-> NoReport,
     image_uri_with_digest |-> <<>>,
     scan_results |-> NoReport, summary |-> <<>>,
     da_report |-> NoReport,
     metrics_report |-> NoReport, logs_report |-> NoReport,
     health_check_raw_data |-> <<>>,
     stable_rev_report |-> NoReport, redirect_report |-> NoReport,
     rollback_summary |-> <<>>, list_fault |-> "", redirect_fault |-> "",
     revision_name |-> <<>>, listing |-> <<>>, queries |-> <<>>,
     terraform_env |-> <<>>,
     build |-> "NONE",
     new_service_name |-> <<>>, image_uri_to_deploy |-> <<>>, region |-> <<>>,
     infra_report |-> NoReport, service_details_report |-> NoReport,
     deployment_url |-> None]

\* The frame of an invocation that has not started
IdleFrame ==
    [pc |-> "idle", tool |-> "none", final_summary |-> <<>>, calls |-> <<>>,
     api |-> <<>>, loc |-> EmptyLoc,
     pre |-> [revisions |-> {}, traffic |-> <<>>, template |-> <<>>],
     ret |-> <<>>]

\* The traffic tables a service with revisions 1..n may start with: all
\* traffic on one revision, or an even split between two
InitialSplits(n) ==
    IF n = 0 THEN {<<>>}
    ELSE {<<[revision |-> RevisionShortName(k), percent |-> 100]>> : k \in 1..n}
         \cup {<<[revision |-> RevisionShortName(jk[1]), percent |-> 50],
                 [revision |-> RevisionShortName(jk[2]), percent |-> 50]>> :
               jk \in {p \in (1..n) \X (1..n) : p[1] < p[2]}}

Init ==
    /\ GCP_PROJECT_ID \in {"", "proj"}
    /\ \E n \in 0..MaxInitRevisions :
         /\ revisions = {Revision(k) : k \in 1..n}
         /\ traffic \in InitialSplits(n)
         /\ template = IF n = 0 THEN <<>> ELSE <<"image-0">>
    /\ build = "NONE"
    /\ pc = "idle"
    /\ tool = "none"
    /\ final_summary = <<>>
    /\ calls = <<>>
    /\ api = <<>>
    /\ loc = EmptyLoc
    /\ pre = [revisions |-> revisions, traffic |-> traffic, template |-> template]
    /\ ret = <<>>
    /\ runs = 0
    /\ suspended = IdleFrame
    /\ runner = FALSE
    /\ sys_stdout = 0
    /\ captures = <<>>

CanStart == pc = "idle" /\ runs < MaxRuns

Platform == <<revisions, traffic, template>>

\* return "\n".join(final_summary)
Returns_and_goes_round(lines) ==
    /\ final_summary' = lines
    /\ ret' = Join(lines, "\n")
    /\ pc' = pc
Returns(lines) ==
    /\ final_summary' = lines
    /\ ret' = Join(lines, "\n")
    /\ pc' = "returned"

Repositories == {<<"another-repo">>}
Branches == {<<"main">>}

\* Step 1: Source Control
SmartDeploy_SourceLookup ==
    \E repo \in Repositories, branch \in Branches, fault \in ScaFaults :
      LET sca_report == get_latest_commit_sha(TARGET_GITHUB_REPO_FULL_NAME, branch, fault)
          commit_sha == Get(sca_report, "commit_sha", None)
          lines == <<ScaLine(sca_report)>>
      IN  /\ CanStart
          /\ runs' = runs + 1
          /\ tool' = "smart_deploy"
          /\ pre' = Service
          /\ api' = <<>>
          /\ calls' = <<Call("get_latest_commit_sha",
                             [repo_full_name |-> TARGET_GITHUB_REPO_FULL_NAME,
                              branch_name |-> branch])>>
          /\ loc' = [EmptyLoc EXCEPT !.target_repository_name = repo,
                                     !.target_branch_name = branch,
                                     !.steps = <<1>>,
                                     !.sca_report = sca_report]
          /\ IF ScaFailed(sca_report)
             THEN Returns(lines)
             ELSE /\ final_summary' = lines
                  /\ ret' = <<>>
                  \* commit_sha[:8] raises on None
                  /\ pc' = IF commit_sha = None THEN "raised" ELSE "step2"
          /\ UNCHANGED <<GCP_PROJECT_ID, runner, sys_stdout, captures, suspended, build, Platform>>

\* Step 2: Build & Test, from the call of the build adapter to the branch on
\* its report
BuildReturns(env) ==
    LET commit_sha == Get(loc.sca_report, "commit_sha", None)
        args == [trigger_id |-> TARGET_APP_TRIGGER_ID, project_id |-> ProjectText,
                 repo_name |-> Last(Split(TARGET_GITHUB_REPO_FULL_NAME, "/")),
                 branch_name |-> loc.target_branch_name, commit_sha |-> commit_sha]
        bta_report == trigger_build_and_monitor(args.trigger_id, args.project_id,
                          args.repo_name, args.branch_name, args.commit_sha, env)
        lines == final_summary \o <<BtaLine(bta_report), TestStatusLine(bta_report)>>
    IN  /\ calls' = Append(calls, Call("trigger_build_and_monitor", args))
        /\ loc' = [loc EXCEPT !.steps = Append(@, 2),
                              !.bta_report = IF Raised(bta_report) THEN NoReport
                                             ELSE bta_report]
        /\ IF Raised(bta_report)
           THEN /\ pc' = "raised"
                /\ UNCHANGED <<final_summary, ret>>
           ELSE IF BtaFailed(bta_report)
           THEN Returns(lines)
           ELSE /\ final_summary' = lines
                /\ pc' = "step3"
                /\ UNCHANGED ret
        /\ UNCHANGED <<GCP_PROJECT_ID, runner, sys_stdout, captures, suspended, build, Platform, tool, api, pre, runs>>

\* Step 2 with a build that reaches a final status
SmartDeploy_Build ==
    \E env \in BuildEnvs : pc = "step2" /\ BuildReturns(env)

\* The image the scan is asked about: base name and digest of the first
\* image of the build report, when both are there
ScanTarget(bta_report) ==
    LET bta_details == Get(bta_report, "details", <<>>)
        images == Get(Get(bta_details, "results", <<>>), "images", <<>>)
        first_image_info == IF images # <<>> THEN images[1] ELSE <<>>
        image_digest == Get(first_image_info, "digest", None)
        full_image_name_with_tag == Get(first_image_info, "name", None)
        image_base_name == IF Truthy(full_image_name_with_tag)
                           THEN Split(full_image_name_with_tag, ":")[1] ELSE None
    IN  IF Truthy(image_base_name) /\ Truthy(image_digest)
        THEN image_base_name \o <<"@">> \o image_digest
        ELSE <<>>

\* Step 3: Security Scan
SmartDeploy_SecurityScan ==
    \E queries \in ScanEnvs, gemini \in GeminiAnswers :
      LET image_uri_with_digest == ScanTarget(loc.bta_report)
          scan_results == get_vulnerability_scan_results(image_uri_with_digest,
                                                         ProjectText, queries)
          summary == summarize_vulnerabilities_with_gemini(scan_results, gemini)
          scan_call == Call("get_vulnerability_scan_results",
                            [image_uri_with_digest |-> image_uri_with_digest])
          summarize_call == Call("summarize_vulnerabilities_with_gemini",
                                 [scan_results |-> scan_results])
      IN  /\ pc = "step3"
          /\ IF image_uri_with_digest # <<>>
             THEN IF ScanFailed(scan_results)
                  THEN /\ calls' = Append(calls, scan_call)
                       /\ loc' = [loc EXCEPT !.steps = Append(@, 3),
                                     !.image_uri_with_digest = image_uri_with_digest,
                                     !.scan_results = scan_results]
                       /\ Returns(final_summary
                                    \o <<ScanFailedLine(scan_results), ScanErrorHaltLine>>)
                  ELSE /\ calls' = calls \o <<scan_call, summarize_call>>
                       /\ loc' = [loc EXCEPT !.steps = Append(@, 3),
                                     !.image_uri_with_digest = image_uri_with_digest,
                                     !.scan_results = scan_results,
                                     !.summary = summary]
                       /\ IF SummarySaysCritical(summary)
                          THEN Returns(final_summary
                                         \o <<SummaryLine(summary), CriticalHaltLine>>)
                          ELSE /\ final_summary' = Append(final_summary, SummaryLine(summary))
                               /\ pc' = "step4"
                               /\ UNCHANGED ret
             ELSE /\ calls' = calls
                  /\ loc' = [loc EXCEPT !.steps = Append(@, 3)]
                  /\ final_summary' = Append(final_summary, ScanSkippedLine)
                  /\ pc' = "step4"
                  /\ UNCHANGED ret
          /\ UNCHANGED <<GCP_PROJECT_ID, runner, sys_stdout, captures, suspended, build, Platform, tool, api, pre, runs>>

\* Step 4: Deployment
SmartDeploy_Deploy ==
    \E fault \in DeployFaults :
      LET image_uri_commit == Get(loc.bta_report, "image_uri_commit", None)
          args == [project_id |-> ProjectText, region |-> TARGET_APP_CLOUD_RUN_REGION,
                   service_name |-> TARGET_APP_CLOUD_RUN_SERVICE_NAME,
                   image_uri |-> image_uri_commit]
          d == deploy_to_cloud_run(args.project_id, args.region, args.service_name,
                                   args.image_uri, fault)
          da_report == d.ret
      IN  /\ pc = "step4"
          /\ calls' = Append(calls, Call("deploy_to_cloud_run", args))
          /\ api' = api \o d.api
          /\ revisions' = d.svc.revisions
          /\ traffic' = d.svc.traffic
          /\ template' = d.svc.template
          /\ IF DeployFailed(da_report)
             THEN /\ loc' = [loc EXCEPT !.steps = Append(@, 4), !.da_report = da_report]
                  /\ pc' = "rollback_after_deploy"
                  /\ UNCHANGED final_summary
             ELSE /\ loc' = [loc EXCEPT !.steps = Append(@, 4), !.da_report = da_report,
                                !.deployment_url = Get(da_report, "service_url", None)]
                  /\ final_summary' = Append(final_summary, DeployLine(da_report))
                  /\ pc' = "step5"
          /\ UNCHANGED <<GCP_PROJECT_ID, runner, sys_stdout, captures, suspended, build, tool, pre, ret, runs>>

\* Step 4, deployment failed: automatic rollback, then the report
SmartDeploy_DeployFailedRollback ==
    \E env \in RollbackEnvs :
      LET rb == execute_rollback_workflow(TARGET_APP_CLOUD_RUN_SERVICE_NAME,
                                          TARGET_APP_CLOUD_RUN_REGION, env)
      IN  /\ pc = "rollback_after_deploy"
          /\ calls' = calls
                \o <<Call("execute_rollback_workflow",
                          [service_id |-> TARGET_APP_CLOUD_RUN_SERVICE_NAME,
                           location |-> TARGET_APP_CLOUD_RUN_REGION])>>
                \o rb.calls
          /\ api' = api \o rb.api
          /\ traffic' = rb.traffic
          /\ loc' = [loc EXCEPT !.rollback_summary = rb.summary,
                                !.list_fault = env.list_fault,
                                !.redirect_fault = env.redirect_fault,
                                !.stable_rev_report = rb.stable_rev_report,
                                !.redirect_report = rb.redirect_report]
          /\ Returns(final_summary
                       \o <<DeployFailedLine(loc.da_report), RollbackLine(rb.summary),
                            <<>>, DeployContinuityLine, NextStepsLine>>)
          /\ UNCHANGED <<GCP_PROJECT_ID, runner, sys_stdout, captures, suspended, build, revisions, template, tool, pre, runs>>

\* Step 6: Final Status
FinalStatusLines_no_url(deployment_url) == <<WorkflowStatusLine>>
FinalStatusLines(deployment_url) ==
    <<WorkflowStatusLine>>
      \o (IF Truthy(deployment_url) THEN UrlLines(deployment_url) ELSE <<>>)

\* Step 5: Post-Deployment Health Check
SmartDeploy_HealthCheck ==
    \E env \in HealthEnvs :
      LET h == execute_health_check_workflow(TARGET_APP_CLOUD_RUN_SERVICE_NAME,
                   TARGET_APP_CLOUD_RUN_REGION, PostDeployWindowMinutes,
                   DefaultMaxLogEntries, env)
          health_check_raw_data == h.report
      IN  /\ pc = "step5"
          /\ calls' = calls
                \o <<Call("execute_health_check_workflow",
                          [service_id |-> TARGET_APP_CLOUD_RUN_SERVICE_NAME,
                           location |-> TARGET_APP_CLOUD_RUN_REGION])>>
                \o h.calls
          /\ IF HealthCheckFailed(health_check_raw_data)
             THEN /\ loc' = [loc EXCEPT !.steps = Append(@, 5),
                                !.metrics_report = h.metrics_report,
                                !.logs_report = h.logs_report,
                                !.health_check_raw_data = health_check_raw_data]
                  /\ final_summary' = Append(final_summary, HealthFailedLine)
                  /\ pc' = "rollback_after_health"
                  /\ UNCHANGED ret
             ELSE /\ loc' = [loc EXCEPT !.steps = @ \o <<5, 6>>,
                                !.metrics_report = h.metrics_report,
                                !.logs_report = h.logs_report,
                                !.health_check_raw_data = health_check_raw_data]
                  /\ Returns(final_summary \o <<HealthPassedLine>>
                               \o FinalStatusLines(loc.deployment_url))
          /\ UNCHANGED <<GCP_PROJECT_ID, runner, sys_stdout, captures, suspended, build, Platform, tool, api, pre, runs>>

\* Step 5, health check failed: automatic rollback, then Step 6
SmartDeploy_UnhealthyRollback ==
    \E env \in RollbackEnvs :
      LET rb == execute_rollback_workflow(TARGET_APP_CLOUD_RUN_SERVICE_NAME,
                                          TARGET_APP_CLOUD_RUN_REGION, env)
          deployment_url == None
      IN  /\ pc = "rollback_after_health"
          /\ calls' = calls
                \o <<Call("execute_rollback_workflow",
                          [service_id |-> TARGET_APP_CLOUD_RUN_SERVICE_NAME,
                           location |-> TARGET_APP_CLOUD_RUN_REGION])>>
                \o rb.calls
          /\ api' = api \o rb.api
          /\ traffic' = rb.traffic
          /\ loc' = [loc EXCEPT !.steps = Append(@, 6),
                                !.rollback_summary = rb.summary,
                                !.list_fault = env.list_fault,
                                !.redirect_fault = env.redirect_fault,
                                !.stable_rev_report = rb.stable_rev_report,
                                !.redirect_report = rb.redirect_report,
                                !.deployment_url = deployment_url]
          /\ Returns(final_summary
                       \o <<RollbackLine(rb.summary), <<>>, HealthContinuityLine>>
                       \o FinalStatusLines(deployment_url))
          /\ UNCHANGED <<GCP_PROJECT_ID, runner, sys_stdout, captures, suspended, build, revisions, template, tool, pre, runs>>

\* The rollback workflow invoked as a tool of its own
RollbackTool ==
    \E env \in RollbackEnvs :
      LET rb == execute_rollback_workflow(TARGET_APP_CLOUD_RUN_SERVICE_NAME,
                                          TARGET_APP_CLOUD_RUN_REGION, env)
      IN  /\ CanStart
          /\ runs' = runs + 1
          /\ tool' = "rollback"
          /\ pre' = Service
          /\ calls' = <<Call("execute_rollback_workflow",
                             [service_id |-> TARGET_APP_CLOUD_RUN_SERVICE_NAME,
                              location |-> TARGET_APP_CLOUD_RUN_REGION])>>
                        \o rb.calls
          /\ api' = rb.api
          /\ traffic' = rb.traffic
          /\ loc' = [EmptyLoc EXCEPT !.rollback_summary = rb.summary,
                                     !.list_fault = env.list_fault,
                                !.redirect_fault = env.redirect_fault,
                                     !.stable_rev_report = rb.stable_rev_report,
                                     !.redirect_report = rb.redirect_report]
          /\ final_summary' = <<>>
          /\ ret' = rb.summary
          /\ pc' = "returned"
          /\ UNCHANGED <<GCP_PROJECT_ID, runner, sys_stdout, captures, suspended, build, revisions, template>>

\* The revision names a caller may hand to the redirect tool: fully
\* qualified or short, of a revision that exists or not, or nothing
RedirectNames ==
    {RevisionFullName(k) : k \in 1..(MaxInitRevisions + 1)}
      \cup {RevisionShortName(k) : k \in 1..(MaxInitRevisions + 1)}
      \cup {<<>>}

\* redirect_traffic_to_revision invoked as a tool of its own
RedirectTool ==
    \E revision_name \in RedirectNames, fault \in RedirectFaults :
      LET r == redirect_traffic_to_revision(ProjectText, TARGET_APP_CLOUD_RUN_REGION,
                   TARGET_APP_CLOUD_RUN_SERVICE_NAME, revision_name, fault)
      IN  /\ CanStart
          /\ runs' = runs + 1
          /\ tool' = "redirect"
          /\ pre' = Service
          /\ calls' = <<Call("redirect_traffic_to_revision",
                             [project_id |-> ProjectText,
                              location |-> TARGET_APP_CLOUD_RUN_REGION,
                              service_id |-> TARGET_APP_CLOUD_RUN_SERVICE_NAME,
                              revision_name |-> revision_name])>>
          /\ api' = r.api
          /\ traffic' = r.traffic
          /\ loc' = [EmptyLoc EXCEPT !.redirect_report = r.ret,
                                     !.redirect_fault = fault,
                                     !.revision_name = revision_name]
          /\ final_summary' = <<>>
          /\ ret' = <<>>
          /\ pc' = "returned"
          /\ UNCHANGED <<GCP_PROJECT_ID, runner, sys_stdout, captures, suspended, build, revisions, template>>

\* infra_agent.py: max_attempts of _get_build_logs_from_api
max_attempts == 30

\* _get_build_logs_from_api is called for a build that Cloud Build holds in
\* some status; building the client may raise, which the outer try turns
\* into None
BuildLogs_Start ==
    \E status \in {"WORKING", "SUCCESS", "FAILURE", "INTERNAL_ERROR"},
       client_raises \in BOOLEAN :
      /\ CanStart
      /\ runs' = runs + 1
      /\ tool' = "build_logs"
      /\ pre' = Service
      /\ build' = status
      /\ calls' = <<Call("_get_build_logs_from_api", [build_id |-> <<"t1">>])>>
      /\ api' = <<>>
      /\ loc' = EmptyLoc
      /\ final_summary' = <<>>
      /\ IF client_raises
         THEN ret' = None /\ pc' = "returned"
         ELSE ret' = <<>> /\ pc' = "polling"
      /\ UNCHANGED <<GCP_PROJECT_ID, runner, sys_stdout, captures, suspended, Platform>>

\* One pass of 'for attempt in range(max_attempts)': get_build raises, or
\* gives the build in its present status; for SUCCESS, FAILURE, TIMEOUT and
\* CANCELLED the logs are extracted and the loop is left, with or without
\* logs; for any other status, and after an exception, the loop sleeps and
\* goes round.  Cloud Build moves a build that is not finished on as it
\* likes.
BuildLogs_Poll ==
    \E poll_raises \in BOOLEAN, logs \in BOOLEAN,
       next \in {"WORKING", "SUCCESS", "FAILURE", "TIMEOUT", "INTERNAL_ERROR"} :
      LET attempt == Len(api) + 1
          done == ~poll_raises /\ build \in {"SUCCESS", "FAILURE", "TIMEOUT", "CANCELLED"}
      IN  /\ tool = "build_logs" /\ pc = "polling"
          /\ api' = Append(api, [op |-> "get_build", name |-> <<"t1">>])
          /\ loc' = IF poll_raises THEN loc ELSE [loc EXCEPT !.build = build]
          /\ build' = IF build \in {"QUEUED", "WORKING"} THEN next ELSE build
          /\ IF done
             THEN /\ ret' = IF logs THEN <<"terraform log">> ELSE None
                  /\ pc' = "returned"
             ELSE IF attempt = max_attempts
             THEN ret' = None /\ pc' = "returned"
             ELSE UNCHANGED <<ret, pc>>
          /\ UNCHANGED <<GCP_PROJECT_ID, runner, sys_stdout, captures, suspended, Platform,
                         tool, final_summary, calls, pre, runs>>

\* What a caller of the build sub-agent may pass for the commit and the
\* branch: a value, the empty text, or nothing
CommitArguments == {CommitSha, <<>>, None}
BranchArguments == {<<"main">>, <<>>}

\* trigger_build_and_monitor invoked as the tool of the build sub-agent
BuildAdapterTool ==
    \E commit_sha \in CommitArguments, branch_name \in BranchArguments, env \in BuildEnvs :
      LET args == [trigger_id |-> TARGET_APP_TRIGGER_ID, project_id |-> ProjectText,
                   repo_name |-> Last(Split(TARGET_GITHUB_REPO_FULL_NAME, "/")),
                   branch_name |-> branch_name, commit_sha |-> commit_sha]
          bta_report == trigger_build_and_monitor(args.trigger_id, args.project_id,
                            args.repo_name, args.branch_name, args.commit_sha, env)
          validated == commit_sha # None
                         /\ Truthy(args.trigger_id) /\ Truthy(args.project_id)
                         /\ Truthy(args.repo_name) /\ Truthy(args.branch_name)
                         /\ Truthy(args.commit_sha)
      IN  /\ CanStart
          /\ runs' = runs + 1
          /\ tool' = "build_adapter"
          /\ pre' = Service
          /\ calls' = <<Call("trigger_build_and_monitor", args)>>
          \* client.run_build_trigger is the first request
          /\ api' = IF validated /\ env.fault # "client_raises"
                    THEN <<[op |-> "run_build_trigger", name |-> args.trigger_id]>>
                    ELSE <<>>
          /\ loc' = [EmptyLoc EXCEPT !.bta_report = IF Raised(bta_report) THEN NoReport
                                                    ELSE bta_report]
          /\ final_summary' = <<>>
          /\ ret' = <<>>
          /\ pc' = IF Raised(bta_report) THEN "raised" ELSE "returned"
          /\ UNCHANGED <<GCP_PROJECT_ID, runner, sys_stdout, captures, suspended, build, Platform>>

\* get_vulnerability_scan_results invoked as the tool of the security
\* sub-agent, the service answering each of its queries in any way; api
\* holds the list_occurrences requests it sent
ScanAdapterTool ==
    \E queries \in [1..max_retries -> QueryResults],
       image_uri_with_digest \in {<<"img", "@", "sha256:", "d1">>, <<"img", ":", "v1">>} :
      LET scan_results == get_vulnerability_scan_results(image_uri_with_digest,
                                                         ProjectText, queries)
          validated == Truthy(ProjectText)
                         /\ Contains(image_uri_with_digest, <<"@", "sha256:">>)
          n == IF validated THEN QueryLoop(queries, 1).n ELSE 0
      IN  /\ CanStart
          /\ runs' = runs + 1
          /\ tool' = "scan_adapter"
          /\ pre' = Service
          /\ calls' = <<Call("get_vulnerability_scan_results",
                             [image_uri_with_digest |-> image_uri_with_digest])>>
          /\ api' = [i \in 1..n |->
                       [op |-> "list_occurrences",
                        name |-> <<"https://">> \o image_uri_with_digest]]
          /\ loc' = [EmptyLoc EXCEPT !.image_uri_with_digest = image_uri_with_digest,
                                     !.scan_results = scan_results,
                                     !.queries = queries]
          /\ final_summary' = <<>>
          /\ ret' = <<>>
          /\ pc' = "returned"
          /\ UNCHANGED <<GCP_PROJECT_ID, runner, sys_stdout, captures, suspended, build, Platform>>

----------------------------------------------------------------------------
(* infra_agent.py and the two infrastructure tools of agent.py *)

INFRA_DEFAULT_IMAGE_REPO == <<"gemini-flow-apps">>
INFRA_DEFAULT_IMAGE_NAME == <<"gemini-flow-hello-world">>

\* str.lower(), unit by unit
LowerUnit(u) ==
    CASE u = "LATEST" -> "latest"
      [] u = "Latest" -> "latest"
      [] OTHER -> u

Lower(s) == [i \in DOMAIN s |-> LowerUnit(s[i])]

\* The image URI used when the caller names none
DefaultImageUri ==
    TARGET_APP_CLOUD_RUN_REGION \o <<"-docker.pkg.dev/">> \o ProjectText \o <<"/">>
        \o INFRA_DEFAULT_IMAGE_REPO \o <<"/">> \o INFRA_DEFAULT_IMAGE_NAME
        \o <<":", "latest">>

\* plan_new_environment: final_image_uri
plan_final_image_uri(image_uri_to_deploy) ==
    IF Lower(image_uri_to_deploy) = <<"latest">> THEN DefaultImageUri
    ELSE image_uri_to_deploy

\* apply_new_environment: final_image_uri
apply_final_image_uri_verbatim(image_uri_to_deploy) == image_uri_to_deploy
apply_final_image_uri(image_uri_to_deploy) ==
    IF Lower(image_uri_to_deploy) = <<"latest">> THEN DefaultImageUri
    ELSE image_uri_to_deploy

\* What Cloud Build does with the Terraform trigger: the client cannot be
\* built, the trigger call raises, or the build ends; the logs of a
\* build that ended are read from Cloud Build or not, and what was read is
\* saved to the logs bucket or not; Gemini gives an analysis or not
TerraformEnv(outcome, logs, saved, ai) ==
    [outcome |-> outcome, logs |-> logs, saved |-> saved, ai |-> ai]

TerraformEnvs ==
    {TerraformEnv("client_raises", FALSE, FALSE, FALSE),
     TerraformEnv("raise", FALSE, FALSE, FALSE),
     TerraformEnv("FAILURE", FALSE, FALSE, FALSE),
     TerraformEnv("FAILURE", TRUE, TRUE, FALSE),
     TerraformEnv("TIMEOUT", TRUE, FALSE, FALSE),
     TerraformEnv("SUCCESS", FALSE, FALSE, FALSE),
     TerraformEnv("SUCCESS", TRUE, FALSE, FALSE),
     TerraformEnv("SUCCESS", TRUE, TRUE, FALSE),
     TerraformEnv("SUCCESS", TRUE, TRUE, TRUE)}

\* _copy_logs_to_terraform_bucket: the log content read from Cloud Build,
\* returned whether or not it could be saved to the bucket
copy_logs_to_terraform_bucket_when_saved(env) ==
    IF env.logs /\ env.saved THEN <<"terraform log">> ELSE None
copy_logs_to_terraform_bucket(env) ==
    IF env.logs THEN <<"terraform log">> ELSE None

PlanCommand == <<"plan">>
ApplyCommand == <<"apply -auto-approve">>

\* The request the trigger run sends to Cloud Build
TerraformRequest(command, new_service_name, deployment_image_uri, region) ==
    [op |-> "run_build_trigger",
     substitutions |-> [_COMMAND |-> command, _REGION |-> region,
                        _SERVICE_NAME |-> new_service_name,
                        _IMAGE_URI |-> deployment_image_uri]]

\* _parse_terraform_log on the copied log
parse_terraform_log(command) ==
    IF command = PlanCommand
    THEN <<"Terraform Plan Summary: ", "1 to add, 0 to change, 0 to destroy.">>
    ELSE <<"Terraform apply complete. New service URL: ", "https://staging.run.app">>

\* _run_terraform_trigger: the returned dict, or the exception of the
\* client constructor, which is outside the try block
run_terraform_trigger(command, new_service_name, deployment_image_uri, region, env) ==
    IF env.outcome = "client_raises"
    THEN Escapes("DefaultCredentialsError")
    ELSE IF env.outcome = "raise"
    THEN [status |-> "ERROR",
          error_message |-> <<"Infra Agent: Failed to run Terraform trigger: ", "exception">>]
    ELSE LET log_text == copy_logs_to_terraform_bucket(env) IN
    IF env.outcome = "SUCCESS"
    THEN IF Truthy(log_text)
         THEN [status |-> "SUCCESS",
               message |-> parse_terraform_log(command),
               ai_summary |-> IF env.ai THEN <<"analysis">>
                              ELSE <<"Gemini summarization not available.">>,
               log_url |-> <<"https://console/build/t1">>,
               build_id |-> <<"t1">>,
               log_retrieved |-> TRUE,
               logs_bucket |-> <<"gemini-flow-build-artifacts">>,
               log_path |-> <<"terraform-logs/">> \o command \o <<"/", "t1", "/terraform_log.txt">>]
         ELSE [status |-> "SUCCESS_NO_LOGS",
               message |-> <<"Terraform ">> \o command
                             \o <<" completed successfully, but logs could not be copied to ",
                                  "gemini-flow-build-artifacts", ".">>,
               ai_summary |-> <<"Logs not available for AI analysis.">>,
               log_url |-> <<"https://console/build/t1">>,
               build_id |-> <<"t1">>,
               log_retrieved |-> FALSE,
               logs_bucket |-> <<"gemini-flow-build-artifacts">>]
    ELSE [status |-> "FAILURE",
          error_message |-> <<"Terraform ">> \o command
                              \o <<" build failed. Check logs for details: ",
                                   "https://console/build/t1">>,
          build_id |-> <<"t1">>,
          log_url |-> <<"https://console/build/t1">>,
          logs_bucket |-> <<"gemini-flow-build-artifacts">>,
          log_retrieved |-> (log_text # None),
          log_path |-> IF Truthy(log_text)
                       THEN <<"terraform-logs/">> \o command
                              \o <<"/", "t1", "/terraform_log.txt">>
                       ELSE None]

run_terraform_plan(new_service_name, deployment_image_uri, region, env) ==
    run_terraform_trigger(PlanCommand, new_service_name, deployment_image_uri, region, env)

run_terraform_apply(new_service_name, deployment_image_uri, region, env) ==
    run_terraform_trigger(ApplyCommand, new_service_name, deployment_image_uri, region, env)

InfraFailed(report) == Get(report, "status", None) \notin {"SUCCESS", "SUCCESS_NO_LOGS"}

\* The part of the response both tools build from the adapter's report
InfraResponseParts(report) ==
    (IF Get(report, "ai_summary", <<>>) # <<>>
        /\ Get(report, "ai_summary", <<>>) # <<"Gemini summarization not available.">>
     THEN <<"\n", "AI Analysis: ">> \o report.ai_summary ELSE <<>>)
      \o (IF Get(report, "log_retrieved", FALSE)
          THEN <<"\n", "Logs saved to: gs://">> \o Get(report, "logs_bucket", <<>>)
                 \o <<"/">> \o Get(report, "log_path", <<>>)
          ELSE <<>>)
      \o <<"\n", "Build Details: ">> \o Get(report, "log_url", <<>>)
      \o <<"\n", "Build ID: ">> \o Get(report, "build_id", <<>>)

\* What the callers of the two tools pass: a service name, an image (none
\* is "latest", in any case, or a URI) and a region (none is the target's)
NewServiceNames == {<<"staging-svc">>}
ImageArguments == {<<"latest">>, <<"LATEST">>, <<"gcr.io/proj/app", ":", "v2">>}
RegionArguments == {TARGET_APP_CLOUD_RUN_REGION, <<"europe-west1">>}

\* plan_new_environment
PlanTool ==
    \E new_service_name \in NewServiceNames, image_uri_to_deploy \in ImageArguments,
       region \in RegionArguments, env \in TerraformEnvs :
      LET final_image_uri == plan_final_image_uri(image_uri_to_deploy)
          args == [new_service_name |-> new_service_name,
                   deployment_image_uri |-> final_image_uri, region |-> region]
          plan_report == run_terraform_plan(new_service_name, final_image_uri, region, env)
      IN  /\ CanStart
          /\ runs' = runs + 1
          /\ tool' = "plan"
          /\ pre' = Service
          /\ calls' = <<Call("run_terraform_plan", args)>>
          /\ api' = IF env.outcome = "client_raises" THEN <<>>
                    ELSE <<TerraformRequest(PlanCommand, new_service_name,
                                            final_image_uri, region)>>
          /\ loc' = [EmptyLoc EXCEPT !.new_service_name = new_service_name,
                                     !.image_uri_to_deploy = image_uri_to_deploy,
                                     !.region = region,
                                     !.terraform_env = env,
                                     !.infra_report = IF Raised(plan_report) THEN NoReport
                                                      ELSE plan_report]
          /\ final_summary' = <<>>
          /\ IF Raised(plan_report)
             THEN pc' = "raised" /\ ret' = <<>>
             ELSE /\ pc' = "returned"
                  /\ ret' = IF InfraFailed(plan_report)
                            THEN <<"Terraform plan FAILED. Reason: ">>
                                   \o Get(plan_report, "error_message", None)
                            ELSE <<"Terraform plan completed successfully for service '">>
                                   \o new_service_name \o <<"'.", "\n", "Plan Summary: ">>
                                   \o Get(plan_report, "message", <<>>)
                                   \o InfraResponseParts(plan_report)
                                   \o <<"\n", "\n",
                                        "Please review the plan details above before proceeding.",
                                        "To apply this plan, respond with: 'apply the plan for ">>
                                   \o new_service_name \o <<"'">>
          /\ UNCHANGED <<GCP_PROJECT_ID, runner, sys_stdout, captures, suspended, build, Platform>>

\* get_service_details is imported from da_agent.py, which does not define
\* it: its report is either outcome
ServiceDetailsReports ==
    {[status |-> "SUCCESS", service_url |-> <<"https://staging.run.app">>],
     [status |-> "ERROR", error_message |-> <<"DA module not found.">>]}

\* apply_new_environment
ApplyTool ==
    \E new_service_name \in NewServiceNames, image_uri_to_deploy \in ImageArguments,
       region \in RegionArguments, env \in TerraformEnvs,
       service_details_report \in ServiceDetailsReports :
      LET final_image_uri == apply_final_image_uri(image_uri_to_deploy)
          args == [new_service_name |-> new_service_name,
                   deployment_image_uri |-> final_image_uri, region |-> region]
          apply_report == run_terraform_apply(new_service_name, final_image_uri, region, env)
          verified == ~Raised(apply_report) /\ ~InfraFailed(apply_report)
      IN  /\ CanStart
          /\ runs' = runs + 1
          /\ tool' = "apply"
          /\ pre' = Service
          /\ calls' = <<Call("run_terraform_apply", args)>>
                        \o (IF verified
                            THEN <<Call("get_service_details",
                                        [project_id |-> ProjectText, region |-> region,
                                         service_name |-> new_service_name])>>
                            ELSE <<>>)
          /\ api' = IF env.outcome = "client_raises" THEN <<>>
                    ELSE <<TerraformRequest(ApplyCommand, new_service_name,
                                            final_image_uri, region)>>
          /\ loc' = [EmptyLoc EXCEPT !.new_service_name = new_service_name,
                                     !.image_uri_to_deploy = image_uri_to_deploy,
                                     !.region = region,
                                     !.terraform_env = env,
                                     !.infra_report = IF Raised(apply_report) THEN NoReport
                                                      ELSE apply_report,
                                     !.service_details_report =
                                         IF verified THEN service_details_report
                                         ELSE NoReport]
          /\ final_summary' = <<>>
          /\ IF Raised(apply_report)
             THEN pc' = "raised" /\ ret' = <<>>
             ELSE /\ pc' = "returned"
                  /\ ret' = IF InfraFailed(apply_report)
                            THEN <<"Terraform apply FAILED. Reason: ">>
                                   \o Get(apply_report, "error_message", None)
                            ELSE <<"Terraform apply completed successfully for service '">>
                                   \o new_service_name \o <<"'!", "\n", "Apply Summary: ">>
                                   \o Get(apply_report, "message", <<>>)
                                   \o InfraResponseParts(apply_report)
                                   \o (IF service_details_report.status = "SUCCESS"
                                       THEN <<"\n", "\n", "**Live Service URL: ">>
                                              \o service_details_report.service_url
                                              \o <<"**", "\n", "Your new service '">>
                                              \o new_service_name
                                              \o <<"' is now live and accessible!">>
                                       ELSE <<"\n", "\n",
                                              "Could not verify the new service URL directly. Please check the Cloud Console or the build logs.",
                                              "   Error: ">>
                                              \o Get(service_details_report,
                                                     "error_message", None))
          /\ UNCHANGED <<GCP_PROJECT_ID, runner, sys_stdout, captures, suspended, build, Platform>>

\* The invocation is over: its frame and what it returned are dropped
Discard ==
    /\ pc \in {"returned", "raised"}
    /\ pc' = "idle"
    /\ tool' = "none"
    /\ final_summary' = <<>>
    /\ calls' = <<>>
    /\ api' = <<>>
    /\ loc' = EmptyLoc
    /\ pre' = Service
    /\ ret' = <<>>
    /\ UNCHANGED <<GCP_PROJECT_ID, runner, sys_stdout, captures, suspended, build, Platform, runs>>

Next ==
    \/ SmartDeploy_SourceLookup
    \/ SmartDeploy_Build
    \/ SmartDeploy_SecurityScan
    \/ SmartDeploy_Deploy
    \/ SmartDeploy_DeployFailedRollback
    \/ SmartDeploy_HealthCheck
    \/ SmartDeploy_UnhealthyRollback
    \/ RollbackTool
    \/ RedirectTool
    \/ Discard

Spec == Init /\ [][Next]_vars

----------------------------------------------------------------------------
(* The tools that are one adapter call or one Terraform run *)

NextTools ==
    \/ PlanTool
    \/ ApplyTool
    \/ BuildAdapterTool
    \/ ScanAdapterTool
    \/ BuildLogs_Start
    \/ BuildLogs_Poll
    \/ RollbackTool
    \/ RedirectTool
    \/ Discard

SpecTools == Init /\ [][NextTools]_vars

----------------------------------------------------------------------------
(* Two Smart-Deploy invocations at once *)

\* The frame of the running invocation: its position and its locals
Frame ==
    [pc |-> pc, tool |-> tool, final_summary |-> final_summary, calls |-> calls,
     api |-> api, loc |-> loc, pre |-> pre, ret |-> ret]

\* What an invocation finds when it runs again: final_summary,
\* deployment_url and the reports are locals of the call, so it finds its
\* own; GCP_PROJECT_ID is the one module value it reads, and no tool
\* assigns it
Resume_shared_summary(saved, current) ==
    [saved EXCEPT !.final_summary = current.final_summary]
Resume(saved, current) == saved

\* The scheduler runs the other invocation
Switch ==
    LET r == Resume(suspended, Frame)
    IN  /\ suspended' = Frame
        /\ pc' = r.pc
        /\ tool' = r.tool
        /\ final_summary' = r.final_summary
        /\ calls' = r.calls
        /\ api' = r.api
        /\ loc' = r.loc
        /\ pre' = r.pre
        /\ ret' = r.ret
        /\ UNCHANGED <<GCP_PROJECT_ID, runner, sys_stdout, captures, build, Platform, runs>>

\* The platform the two invocations run against: Gemini answers, the logs
\* are read and hold no text that looks like a count, and the rollback
\* adapters meet no fault
ConcEnv ==
    /\ loc.list_fault \in {"", "none"}
    /\ loc.redirect_fault \in {"", "none"}
    /\ Get(loc.logs_report, "status", "SUCCESS") # "ERROR"
    /\ ~Contains(loc.health_check_raw_data, <<"panic: ">>)
    /\ ~Contains(loc.summary,
                 <<"Could not summarize vulnerabilities due to an error. Found ">>)

\* The steps that meet the platform of ConcEnv
ConcSecurityScan == SmartDeploy_SecurityScan /\ ConcEnv'
ConcDeployFailedRollback == SmartDeploy_DeployFailedRollback /\ ConcEnv'
ConcHealthCheck == SmartDeploy_HealthCheck /\ ConcEnv'
ConcUnhealthyRollback == SmartDeploy_UnhealthyRollback /\ ConcEnv'

NextConc ==
    \/ SmartDeploy_SourceLookup
    \/ SmartDeploy_Build
    \/ ConcSecurityScan
    \/ SmartDeploy_Deploy
    \/ ConcDeployFailedRollback
    \/ ConcHealthCheck
    \/ ConcUnhealthyRollback
    \/ Discard
    \/ Switch

\* Two invocations against a configured project and a service that has one
\* revision serving
InitConc ==
    /\ Init
    /\ GCP_PROJECT_ID = "proj"
    /\ revisions = {Revision(1)}

SpecConc == InitConc /\ [][NextConc]_vars

----------------------------------------------------------------------------
(* main_api.py: stream_agent_response and PrintCapture *)

\* PrintCapture.write: the text goes to the stdout the capture found when it
\* was created, then onto the capture's queue when it is a status message.
\* print() writes the text and then "\n", which strips to nothing and is
\* never queued.
RECURSIVE PrintCapture_write(_, _, _)
PrintCapture_write(target, text, caps) ==
    IF target = 0 THEN caps
    ELSE LET below == PrintCapture_write(caps[target].original_stdout, text, caps)
         IN  IF text.line # "\n"
             THEN [below EXCEPT ![target].status_queue = Append(@, text)]
             ELSE below

\* startup_event: the Runner is built once, before any request is served,
\* when the agent and the ADK were imported
startup_event ==
    /\ ~runner
    /\ runs = 0 /\ pc = "idle" /\ suspended.pc = "idle"
    /\ runner' = TRUE
    /\ UNCHANGED <<GCP_PROJECT_ID, sys_stdout, captures, suspended, build, Platform, pc,
                   tool, final_summary, calls, api, loc, pre, ret, runs>>

\* A request arrives and the generator runs to its first yields: the error
\* event when there is no Runner, else the session is created and the two
\* initial status events are yielded.  When create_session raises, the
\* except clause assigns sys.stdout from original_stdout, a local that was
\* never bound (-1 here): that raises in turn, the finally clause yields 'done', and
\* the exception leaves the generator.
StreamStart ==
    \E session_created \in BOOLEAN :
      /\ CanStart
      /\ runs' = runs + 1
      /\ tool' = "stream"
      /\ pre' = Service
      /\ calls' = <<>>
      /\ api' = <<>>
      /\ final_summary' = <<>>
      /\ loc' = [request |-> runs + 1, print_capture |-> 0,
                 original_stdout |-> -1, event_count |-> 0, final |-> FALSE,
                 runner |-> runner, session_created |-> runner /\ session_created]
      /\ IF ~runner
         THEN /\ ret' = <<[type |-> "error", data |-> <<"Agent Runner is not available.">>,
                           by |-> 0]>>
              /\ pc' = "returned"
         ELSE IF ~session_created
         THEN /\ ret' = <<[type |-> "done", data |-> <<>>, by |-> 0]>>
              /\ pc' = "raised"
         ELSE /\ ret' = <<[type |-> "status", data |-> <<"Processing your request: ">>,
                           by |-> 0],
                          [type |-> "status", data |-> <<"Initializing agent...">>,
                           by |-> 0]>>
              /\ pc' = "initialized"
      /\ UNCHANGED <<GCP_PROJECT_ID, runner, sys_stdout, captures, suspended, build, Platform>>

\* The generator goes on from the second status event: it creates its
\* PrintCapture, keeps sys.stdout in original_stdout and installs the capture
StreamInstall ==
    /\ tool = "stream" /\ pc = "initialized"
    /\ captures' = Append(captures, [original_stdout |-> sys_stdout, status_queue |-> <<>>])
    /\ loc' = [loc EXCEPT !.print_capture = Len(captures) + 1,
                          !.original_stdout = sys_stdout]
    /\ sys_stdout' = Len(captures) + 1
    /\ pc' = "running"
    /\ UNCHANGED <<GCP_PROJECT_ID, runner, suspended, build, Platform, tool, final_summary,
                   calls, api, pre, ret, runs>>

\* runner.run_async is advanced once.  The agent's tools may print a status
\* line on the way, to whatever sys.stdout is at that time.  Then run_async
\* raises, ends without a final response, or gives an event, final or not;
\* after an event the generator yields the progress status of its count and
\* the lines waiting on its own queue.
StreamEvent ==
    \E printed \in BOOLEAN, outcome \in {"raise", "exhausted", "event", "final"} :
      LET k == loc.print_capture
          text == [line |-> "Step 1/6: Fetching latest commit...", by |-> loc.request]
          caps1 == IF printed THEN PrintCapture_write(sys_stdout, text, captures)
                   ELSE captures
          drained == [i \in 1..Len(caps1[k].status_queue) |->
                        [type |-> "status", data |-> <<caps1[k].status_queue[i].line>>,
                         by |-> caps1[k].status_queue[i].by]]
          caps2 == [caps1 EXCEPT ![k].status_queue = <<>>]
          event_count == loc.event_count + 1
          progress ==
              IF event_count = 1
              THEN <<[type |-> "status", data |-> <<"Agent is analyzing your request...">>,
                      by |-> 0]>>
              ELSE IF event_count = 2
              THEN <<[type |-> "status", data |-> <<"Selecting appropriate tools...">>,
                      by |-> 0]>>
              ELSE IF event_count % 5 = 0
              THEN <<[type |-> "status", data |-> <<"Processing... (">>, by |-> 0]>>
              ELSE <<>>
      IN  /\ tool = "stream" /\ pc = "running"
          /\ CASE outcome = "raise" ->
                    /\ captures' = caps1
                    /\ sys_stdout' = loc.original_stdout
                    /\ ret' = Append(ret, [type |-> "error",
                                           data |-> <<"An internal server error occurred: ">>,
                                           by |-> 0])
                    /\ pc' = "errored"
                    /\ UNCHANGED loc
               [] outcome = "exhausted" ->
                    /\ captures' = caps1
                    /\ sys_stdout' = loc.original_stdout
                    /\ ret' = Append(ret, [type |-> "done", data |-> <<>>, by |-> 0])
                    /\ pc' = "returned"
                    /\ UNCHANGED loc
               [] outcome = "event" ->
                    /\ loc.event_count < MaxEvents
                    /\ captures' = caps2
                    /\ ret' = ret \o progress \o drained
                    /\ loc' = [loc EXCEPT !.event_count = event_count]
                    /\ UNCHANGED <<sys_stdout, pc>>
               [] outcome = "final" ->
                    /\ captures' = caps2
                    /\ ret' = ret \o progress \o drained
                                \o <<[type |-> "status", data |-> <<"Processing complete!">>,
                                      by |-> 0],
                                     [type |-> "response", data |-> <<"Agent finished.">>,
                                      by |-> 0]>>
                    /\ loc' = [loc EXCEPT !.event_count = event_count, !.final = TRUE]
                    /\ pc' = "responded"
                    /\ UNCHANGED sys_stdout
          /\ UNCHANGED <<GCP_PROJECT_ID, runner, suspended, build, Platform, tool,
                         final_summary, calls, api, pre, runs>>

\* The generator goes on from the response event or from the error event:
\* after the response the inner finally restores sys.stdout (after the error
\* it was restored before the event), and the outer finally yields 'done'
StreamFinish ==
    /\ tool = "stream" /\ pc \in {"responded", "errored"}
    /\ sys_stdout' = IF pc = "responded" THEN loc.original_stdout ELSE sys_stdout
    /\ ret' = Append(ret, [type |-> "done", data |-> <<>>, by |-> 0])
    /\ pc' = "returned"
    /\ UNCHANGED <<GCP_PROJECT_ID, runner, captures, suspended, build, Platform, tool,
                   final_summary, calls, api, loc, pre, runs>>

NextStream ==
    \/ startup_event
    \/ StreamStart
    \/ StreamInstall
    \/ StreamEvent
    \/ StreamFinish
    \/ Switch
    \/ Discard

SpecStream == InitConc /\ [][NextStream]_vars

----------------------------------------------------------------------------
(* get_previous_stable_revision on its own *)

\* Every order in which the revisions of S can be listed
RECURSIVE Orders(_)
Orders(S) ==
    IF S = {} THEN {<<>>}
    ELSE UNION {{<<x>> \o o : o \in Orders(S \ {x})} : x \in S}

\* A service whose revisions are any of those created at times 1..MaxListed,
\* the newest of them serving
InitPrev ==
    /\ GCP_PROJECT_ID \in {"", "proj"}
    /\ \E K \in SUBSET (1..MaxListed) :
         /\ revisions = {Revision(k) : k \in K}
         /\ traffic = IF K = {} THEN <<>>
                      ELSE LET newest == CHOOSE k \in K : \A j \in K : j <= k
                           IN  <<[revision |-> RevisionShortName(newest), percent |-> 100]>>
         /\ template = IF K = {} THEN <<>> ELSE <<"image-0">>
    /\ build = "NONE"
    /\ pc = "idle"
    /\ tool = "none"
    /\ final_summary = <<>>
    /\ calls = <<>>
    /\ api = <<>>
    /\ loc = EmptyLoc
    /\ pre = [revisions |-> revisions, traffic |-> traffic, template |-> template]
    /\ ret = <<>>
    /\ runs = 0
    /\ suspended = IdleFrame
    /\ runner = FALSE
    /\ sys_stdout = 0
    /\ captures = <<>>

\* get_previous_stable_revision invoked as a tool of the rollback sub-agent;
\* list_revisions answers in any order
PreviousStableTool ==
    \E fault \in ListFaults, listing \in Orders(revisions) :
      LET args == [project_id |-> ProjectText, location |-> TARGET_APP_CLOUD_RUN_REGION,
                   service_id |-> TARGET_APP_CLOUD_RUN_SERVICE_NAME]
          stable_rev_report == get_previous_stable_revision(args.project_id,
                                   args.location, args.service_id, fault, listing)
      IN  /\ CanStart
          /\ runs' = runs + 1
          /\ tool' = "previous_stable"
          /\ pre' = Service
          /\ calls' = <<Call("get_previous_stable_revision", args)>>
          /\ api' = <<>>
          /\ loc' = [EmptyLoc EXCEPT !.stable_rev_report = stable_rev_report,
                                     !.list_fault = fault,
                                     !.listing = listing]
          /\ final_summary' = <<>>
          /\ ret' = <<>>
          /\ pc' = "returned"
          /\ UNCHANGED <<GCP_PROJECT_ID, runner, sys_stdout, captures, suspended, build, Platform>>

NextPrev ==
    \/ PreviousStableTool
    \/ Discard

SpecPrev == InitPrev /\ [][NextPrev]_vars

----------------------------------------------------------------------------
(* Step 2 with the build adapter's monitoring loop spelled out *)

\* The build adapter returns or raises before it monitors a build: a
\* parameter is missing, the client cannot be built, the trigger call raises
SmartDeploy_BuildEarly ==
    \E env \in BuildEnvs :
      /\ pc = "step2"
      /\ env.fault # "none" \/ ~Truthy(ProjectText)
      /\ BuildReturns(env)

\* run_build_trigger, then the first get_build
SmartDeploy_BuildStart ==
    /\ pc = "step2"
    /\ Truthy(ProjectText)
    /\ build' = "QUEUED"
    /\ loc' = [loc EXCEPT !.build = "QUEUED"]
    /\ pc' = "monitoring"
    /\ UNCHANGED <<GCP_PROJECT_ID, runner, sys_stdout, captures, suspended, Platform, tool, final_summary, calls, api, pre, ret, runs>>

\* Cloud Build moves the build on; nothing makes it do so
CloudBuild_Progress ==
    /\ build \in {"QUEUED", "WORKING"}
    /\ build' \in (IF build = "QUEUED" THEN {"WORKING"} ELSE {"SUCCESS", "FAILURE"})
    /\ UNCHANGED <<GCP_PROJECT_ID, runner, sys_stdout, captures, suspended, Platform, pc, tool, final_summary, calls, api, loc,
                   pre, ret, runs>>

\* while build.status in [QUEUED, WORKING]: time.sleep(10)
SmartDeploy_BuildSleep ==
    /\ pc = "monitoring"
    /\ loc.build \in {"QUEUED", "WORKING"}
    /\ pc' = "sleeping"
    /\ UNCHANGED <<GCP_PROJECT_ID, runner, sys_stdout, captures, suspended, build, Platform, tool, final_summary, calls, api, loc,
                   pre, ret, runs>>

\* build = client.get_build(...), then back to the loop's test
SmartDeploy_BuildPoll ==
    /\ pc = "sleeping"
    /\ loc' = [loc EXCEPT !.build = build]
    /\ pc' = "monitoring"
    /\ UNCHANGED <<GCP_PROJECT_ID, runner, sys_stdout, captures, suspended, build, Platform, tool, final_summary, calls, api,
                   pre, ret, runs>>

\* The loop is left with a final status: the adapter builds its report
SmartDeploy_BuildFinished ==
    \E env \in BuildEnvs :
      /\ pc = "monitoring"
      /\ loc.build \notin {"QUEUED", "WORKING"}
      /\ env.fault = "none"
      /\ env.build_status = loc.build
      /\ BuildReturns(env)

NextLive ==
    \/ SmartDeploy_SourceLookup
    \/ SmartDeploy_BuildEarly
    \/ SmartDeploy_BuildStart
    \/ CloudBuild_Progress
    \/ SmartDeploy_BuildSleep
    \/ SmartDeploy_BuildPoll
    \/ SmartDeploy_BuildFinished
    \/ SmartDeploy_SecurityScan
    \/ SmartDeploy_Deploy
    \/ SmartDeploy_DeployFailedRollback
    \/ SmartDeploy_HealthCheck
    \/ SmartDeploy_UnhealthyRollback
    \/ Discard

\* The orchestrator keeps running its steps; Cloud Build owes no progress
SpecLive ==
    /\ Init
    /\ [][NextLive]_vars
    /\ WF_vars(SmartDeploy_BuildEarly \/ SmartDeploy_BuildStart)
    /\ WF_vars(SmartDeploy_BuildSleep)
    /\ WF_vars(SmartDeploy_BuildPoll)
    /\ WF_vars(SmartDeploy_BuildFinished)
    /\ WF_vars(SmartDeploy_SecurityScan)
    /\ WF_vars(SmartDeploy_Deploy)
    /\ WF_vars(SmartDeploy_DeployFailedRollback)
    /\ WF_vars(SmartDeploy_HealthCheck)
    /\ WF_vars(SmartDeploy_UnhealthyRollback)

----------------------------------------------------------------------------
(* Properties of the Smart-Deploy report and of the adapters it invokes *)

\* The units of a text, the elements of a sequence
Range(s) == {s[i] : i \in DOMAIN s}

\* A Smart-Deploy invocation has returned its report
SmartDeployReturned == tool = "smart_deploy" /\ pc = "returned"

NumberPrefixes == <<"1. ", "2. ", "3. ", "4. ", "5. ", "6. ">>

IsNumbered(line) == line # <<>> /\ line[1] \in Range(NumberPrefixes)

NumberOf(line) == CHOOSE k \in DOMAIN NumberPrefixes : NumberPrefixes[k] = line[1]

\* The numbers of the numbered entries of a report, in the order they appear
NumberedEntries(lines) ==
    LET numbered == SelectSeq(lines, IsNumbered)
    IN  [i \in DOMAIN numbered |-> NumberOf(numbered[i])]

\* The text of entry k of the report after its number and label
EntryTexts(k) ==
    {SubSeq(final_summary[i], 3, Len(final_summary[i])) :
       i \in {j \in DOMAIN final_summary :
                IsNumbered(final_summary[j]) /\ NumberOf(final_summary[j]) = k}}

\* C1: on every path of the Smart-Deploy orchestrator, the returned report
\* holds exactly one numbered entry for each step that was executed, in the
\* order of execution, and the numbers run 1, 2, ..., N without a gap; the
\* returned text is these lines joined by newlines.
C1_OneNumberedEntryPerStep ==
    SmartDeployReturned =>
        /\ NumberedEntries(final_summary) = loc.steps
        /\ loc.steps = [k \in 1..Len(loc.steps) |-> k]
        /\ Len(loc.steps) >= 1
        /\ ret = Join(final_summary, "\n")

\* C1 witness: a run that skipped the scan for want of a digest, deployed,
\* failed the health check and rolled back returns a report of six entries
C1_Witness_SixEntriesWithRollback ==
    /\ SmartDeployReturned
    /\ loc.steps = <<1, 2, 3, 4, 5, 6>>
    /\ loc.image_uri_with_digest = <<>>
    /\ CallCount("execute_rollback_workflow") = 1

LaterAdapters ==
    {"trigger_build_and_monitor", "get_vulnerability_scan_results",
     "summarize_vulnerabilities_with_gemini", "deploy_to_cloud_run",
     "execute_health_check_workflow", "get_cloud_run_metrics", "get_cloud_run_logs",
     "generate_health_report", "execute_rollback_workflow",
     "get_previous_stable_revision", "redirect_traffic_to_revision"}

\* C2: when SourceLookup returns any non-Success status, the orchestrator
\* returns at once: Build, SecurityScan, Deploy, HealthCheck and Rollback are
\* each invoked zero times and the platform is left as it was.
C2_SourceFailureInvokesNothing ==
    (tool = "smart_deploy" /\ loc.sca_report.status # "SUCCESS") =>
        /\ pc = "returned"
        /\ \A fn \in LaterAdapters : CallCount(fn) = 0
        /\ Len(calls) = 1
        /\ api = <<>>
        /\ Service = pre

\* C2 witness: a run whose source lookup failed on an unknown repository
C2_Witness_SourceLookupFailed ==
    /\ tool = "smart_deploy"
    /\ loc.sca_report.status = "FAILURE"
    /\ CallCount("get_latest_commit_sha") = 1

AfterBuildAdapters == LaterAdapters \ {"trigger_build_and_monitor"}

\* C3: when Build returns any non-Success status, the orchestrator halts: the
\* report holds the build's message as entry 2 and no entry 3, and
\* SecurityScan, Deploy, HealthCheck and Rollback are never invoked.
C3_BuildFailureHalts ==
    (tool = "smart_deploy" /\ loc.bta_report.status \notin {"SUCCESS", "NOT_CALLED"}) =>
        /\ pc = "returned"
        /\ EntryTexts(2) = {loc.bta_report.error_message}
        /\ EntryTexts(3) = {}
        /\ NumberedEntries(final_summary) = <<1, 2>>
        /\ \A fn \in AfterBuildAdapters : CallCount(fn) = 0
        /\ Service = pre

\* C3 witness: a run whose build finished with status FAILURE
C3_Witness_BuildFailed ==
    /\ SmartDeployReturned
    /\ loc.bta_report.status = "FAILURE"
    /\ CallCount("trigger_build_and_monitor") = 1

\* The scan results of the run list a finding of severity CRITICAL
HasCriticalFinding ==
    /\ loc.scan_results.status = "SUCCESS"
    /\ \E i \in DOMAIN loc.scan_results.vulnerabilities :
         loc.scan_results.vulnerabilities[i].severity = "CRITICAL"

\* C4: for any scan result that holds at least one finding of severity
\* CRITICAL, the orchestrator halts before Deploy, whatever text the
\* summarization returns and also when the summarization fails.
C4_CriticalFindingHaltsBeforeDeploy ==
    (tool = "smart_deploy" /\ HasCriticalFinding) =>
        /\ pc = "returned"
        /\ CallCount("deploy_to_cloud_run") = 0

\* The report line that carries a message, if there is one
LinesWith(msg) == {i \in DOMAIN final_summary : Contains(final_summary[i], msg)}

\* The rollback's outcome is in the report: the workflow's message on a line
\* of its own, naming the revision that now takes all traffic when the
\* rollback succeeded, and carrying the failing adapter's reason when not
RollbackOutcomeReported ==
    LET rs == loc.rollback_summary IN
    /\ rs # <<>>
    /\ LinesWith(rs) # {}
    /\ IF loc.redirect_report.status = "SUCCESS"
       THEN /\ Len(traffic) = 1
            /\ traffic[1].percent = 100
            /\ Contains(rs, traffic[1].revision)
       ELSE IF loc.redirect_report.status = "NOT_CALLED"
       THEN Contains(rs, loc.stable_rev_report.error_message)
       ELSE Contains(rs, loc.redirect_report.error_message)

DeployDidNotSucceed ==
    tool = "smart_deploy" /\ loc.da_report.status \notin {"SUCCESS", "NOT_CALLED"}

HealthAdapters ==
    {"execute_health_check_workflow", "get_cloud_run_metrics", "get_cloud_run_logs",
     "generate_health_report"}

ErrorCountReported(n) ==
    /\ SmartDeployReturned
    /\ loc.da_report.status = "SUCCESS"
    /\ loc.metrics_report.status = "SUCCESS"
    /\ loc.metrics_report.metrics.error_count = n

\* C6: after a successful Deploy, when the health check reports an error
\* count above zero, Rollback is invoked exactly once; when it reports an
\* error count of zero, Rollback is never invoked and the report ends with
\* the live service URL.
C6_RollbackIffErrorCountPositive ==
    /\ \A n \in {m.error_count : m \in MetricsEnvs} \ {0} :
         ErrorCountReported(n) => CallCount("execute_rollback_workflow") = 1
    /\ ErrorCountReported(0) =>
         /\ CallCount("execute_rollback_workflow") = 0
         /\ Len(final_summary) >= 2
         /\ Contains(final_summary[Len(final_summary) - 1], loc.da_report.service_url)

ScanDidNotSucceed ==
    tool = "smart_deploy" /\ loc.scan_results.status \notin {"SUCCESS", "NOT_CALLED"}

AfterScanAdapters ==
    AfterBuildAdapters \ {"get_vulnerability_scan_results"}

\* C10: when the scan adapter returns non-Success, the orchestrator halts
\* with a scan-error message as entry 3 and the halt notice as the last line;
\* summarization, Deploy, HealthCheck and Rollback are never invoked.
C10_ScanFailureHalts ==
    ScanDidNotSucceed =>
        /\ pc = "returned"
        /\ \A fn \in AfterScanAdapters : CallCount(fn) = 0
        /\ CallCount("get_vulnerability_scan_results") = 1
        /\ NumberedEntries(final_summary) = <<1, 2, 3>>
        /\ \E t \in EntryTexts(3) : Contains(t, loc.scan_results.error_message)
        /\ Contains(Last(final_summary), <<"Deployment HALTED due to security scan error.">>)
        /\ Service = pre

\* C10 witness: the scan adapter's query raised and the run returned
C10_Witness_ScanErrored ==
    /\ ScanDidNotSucceed
    /\ pc = "returned"
    /\ loc.scan_results.status = "ERROR"
    /\ loc.image_uri_with_digest # <<>>

----------------------------------------------------------------------------
(* Properties of the rollback workflow and of the traffic redirect *)

\* The rollback workflow ran in this invocation, on its own or from
\* Smart-Deploy
RollbackRan == CallCount("get_previous_stable_revision") > 0

\* The listing of the service's revisions was made and answered
ListingReturned == GCP_PROJECT_ID # "" /\ loc.list_fault = "none"

\* The requests of this invocation that set the traffic table
TrafficUpdates ==
    {i \in DOMAIN api : api[i].op = "update_service" /\ "traffic" \in DOMAIN api[i]}

RedirectedNames ==
    {calls[i].args.revision_name :
       i \in {j \in DOMAIN calls : calls[j].fn = "redirect_traffic_to_revision"}}

\* t is the final path segment of the name n
IsFinalSegment(t, n) ==
    /\ "/" \notin Range(t)
    /\ Len(t) <= Len(n)
    /\ SubSeq(n, Len(n) - Len(t) + 1, Len(n)) = t
    /\ Len(t) < Len(n) => n[Len(n) - Len(t)] = "/"

\* C8: the traffic target the redirect sends names only the final path
\* segment of the revision name it was given; a name that is already short
\* is sent unchanged.
C8_TrafficTargetIsFinalSegment ==
    \A n \in RedirectedNames : \A i \in TrafficUpdates :
        \A k \in DOMAIN api[i].traffic :
            /\ IsFinalSegment(api[i].traffic[k].revision, n)
            /\ "/" \notin Range(n) => api[i].traffic[k].revision = n

\* C8 witness: the redirect was given a fully qualified revision name and
\* sent its update
C8_Witness_FullNameRedirected ==
    /\ tool = "redirect"
    /\ TrafficUpdates # {}
    /\ \E n \in RedirectedNames : "/" \in Range(n) /\ Len(n) > 1
    /\ loc.redirect_report.status = "SUCCESS"

\* C9: a successful redirect replaces the whole traffic table by the single
\* entry of the chosen revision at 100%; the table of an existing service
\* sums to 100 in every reachable state; the redirect's update carries the
\* update mask "traffic" alone and changes no other field of the service.
C9_RedirectReplacesTrafficTable ==
    /\ SumPercent(traffic) = IF revisions = {} THEN 0 ELSE 100
    /\ loc.redirect_report.status = "SUCCESS" =>
         /\ Len(traffic) = 1
         /\ traffic[1].percent = 100
         /\ \A n \in RedirectedNames : IsFinalSegment(traffic[1].revision, n)
         /\ RedirectedNames # {}
    /\ \A i \in TrafficUpdates :
         /\ api[i].update_mask = {"traffic"}
         /\ Len(api[i].traffic) = 1
    /\ tool \in {"rollback", "redirect"} =>
         (template = pre.template /\ revisions = pre.revisions)

\* C9 witness: a table split between two revisions was replaced by the
\* single entry of the redirect's revision
C9_Witness_SplitTableReplaced ==
    /\ tool = "redirect"
    /\ loc.redirect_report.status = "SUCCESS"
    /\ Len(pre.traffic) = 2
    /\ Len(traffic) = 1

----------------------------------------------------------------------------
(* Properties of error handling and of the final report *)

\* C11: when a step returns Success without the payload the next step needs
\* (SourceLookup without a commit id, Build without an image reference),
\* Smart-Deploy halts with a warning: the next step (Build, respectively
\* Deploy) is not invoked and neither is Rollback.
C11_MissingPayloadHalts ==
    tool = "smart_deploy" =>
        /\ (loc.sca_report.status = "SUCCESS"
              /\ ~Truthy(Get(loc.sca_report, "commit_sha", None))) =>
             (pc = "returned" /\ CallCount("trigger_build_and_monitor") = 0)
        /\ (loc.bta_report.status = "SUCCESS"
              /\ ~Truthy(Get(loc.bta_report, "image_uri_commit", None))) =>
             /\ CallCount("deploy_to_cloud_run") = 0
             /\ CallCount("execute_rollback_workflow") = 0
             /\ pc \in {"step3", "step4", "returned"}

\* The adapter reports of the invocation
AdapterReports ==
    {loc.sca_report, loc.bta_report, loc.scan_results, loc.da_report,
     loc.metrics_report, loc.logs_report, loc.stable_rev_report, loc.redirect_report}

\* C12: every adapter returns one status-carrying result whatever its input
\* and whatever its external client does, and execute_smart_deploy_workflow
\* always returns a report: no exception leaves a step.
C12_NoExceptionEscapes ==
    /\ pc # "raised"
    /\ \A r \in AdapterReports : "status" \in DOMAIN r /\ ~Raised(r)

FailingRun ==
    /\ SmartDeployReturned
    /\ \/ \E r \in {loc.sca_report, loc.bta_report, loc.scan_results, loc.da_report} :
            r.status \in {"ERROR", "FAILURE"}
       \/ (loc.summary # <<>> /\ CallCount("deploy_to_cloud_run") = 0)
       \/ CallCount("execute_rollback_workflow") > 0

\* The messages of the adapters that failed in this run
RootCauses ==
    {r.error_message :
       r \in {q \in {loc.sca_report, loc.bta_report, loc.scan_results, loc.da_report} :
                q.status \in {"ERROR", "FAILURE"}}}

HaltedOrRolledBackMarkers ==
    {<<"Deployment HALTED due to security scan error.">>,
     <<"Deployment HALTED due to CRITICAL vulnerabilities found.">>,
     <<"**Service Continuity Maintained**: While the new deployment failed, your service has been automatically rolled back to the previous stable version and is still running.">>,
     <<"**Service Continuity Maintained**: Health check failed, but your service has been automatically rolled back to the previous stable version and is still running.">>}

\* C14: the report of every failing Smart-Deploy run ends with an explicit
\* halted or rolled-back marker (here: in its last two lines), holds the
\* message of the first failing step, and never carries the completed marker.
C14_FailingRunEndsWithMarker ==
    FailingRun =>
        /\ \E i \in DOMAIN final_summary :
             /\ i >= Len(final_summary) - 1
             /\ final_summary[i] \in HaltedOrRolledBackMarkers
        /\ \A m \in RootCauses : LinesWith(m) # {}
        /\ LinesWith(<<"Workflow Status: COMPLETED">>) = {}

\* The build succeeded with an image whose digest is not known
ImageWithoutDigest ==
    /\ loc.bta_report.status = "SUCCESS"
    /\ LET images == loc.bta_report.details.results.images
       IN  images # <<>> /\ Truthy(images[1].name) /\ ~Truthy(images[1].digest)

----------------------------------------------------------------------------
(* Properties of the health evaluation *)

\* Smart-Deploy has run its health check on the snapshots in loc
HealthEvaluated == tool = "smart_deploy" /\ loc.metrics_report.status # "NOT_CALLED"

\* The verdict Smart-Deploy acted on was "unhealthy"
ActedUnhealthy ==
    pc = "rollback_after_health" \/ CallCount("execute_rollback_workflow") > 0

C17_VerdictDependsOnlyOnErrorCount ==
    HealthEvaluated =>
        (ActedUnhealthy <=> Get(loc.metrics_report, "metrics", [error_count |-> 0]).error_count > 0)

----------------------------------------------------------------------------
(* Error and Failure in the branching *)

\* The names of the adapters invoked, in order
CallNames == [i \in DOMAIN calls |-> calls[i].fn]

\* How the orchestrator may tell an adapter's report apart for branching
Branch(r) ==
    IF r.status = "SUCCESS" THEN "success"
    ELSE IF r.status \in {"ERROR", "FAILURE"} THEN "not success"
    ELSE "not called"

\* The adapters a finished rollback workflow invoked, from its branches
RollbackCallsExpected ==
    <<"execute_rollback_workflow", "get_previous_stable_revision">>
      \o (IF Branch(loc.stable_rev_report) = "success"
          THEN <<"redirect_traffic_to_revision">> ELSE <<>>)

\* The adapters a finished Smart-Deploy run invoked, from its branches
SmartDeployCallsExpected ==
    LET after_deploy ==
            IF Branch(loc.da_report) = "not called" THEN <<>>
            ELSE IF Branch(loc.da_report) = "not success"
            THEN <<"deploy_to_cloud_run">> \o RollbackCallsExpected
            ELSE <<"deploy_to_cloud_run", "execute_health_check_workflow",
                   "get_cloud_run_metrics", "get_cloud_run_logs",
                   "generate_health_report">>
                   \o (IF Branch(loc.stable_rev_report) = "not called" THEN <<>>
                       ELSE RollbackCallsExpected)
        after_scan ==
            IF Branch(loc.scan_results) = "not called" THEN after_deploy
            ELSE IF Branch(loc.scan_results) = "not success"
            THEN <<"get_vulnerability_scan_results">>
            ELSE <<"get_vulnerability_scan_results",
                   "summarize_vulnerabilities_with_gemini">> \o after_deploy
        after_build ==
            IF Branch(loc.bta_report) = "success"
            THEN <<"trigger_build_and_monitor">> \o after_scan
            ELSE <<"trigger_build_and_monitor">>
    IN  <<"get_latest_commit_sha">>
          \o (IF Branch(loc.sca_report) = "success" THEN after_build ELSE <<>>)

\* C18: for branching, Error is equivalent to Failure.  The adapters a
\* finished Smart-Deploy run or rollback workflow invoked are determined by
\* which steps returned SUCCESS and which did not, with no regard to whether
\* a non-success was ERROR or FAILURE: a step that returned either is never
\* followed by the step that success leads to, and the run ends halted or
\* rolled back.
C18_ErrorBranchesAsFailure ==
    /\ SmartDeployReturned =>
         /\ CallNames = SmartDeployCallsExpected
         /\ \A r \in {loc.sca_report, loc.bta_report, loc.scan_results} :
              Branch(r) = "not success" => CallCount("deploy_to_cloud_run") = 0
         /\ Branch(loc.da_report) = "not success" =>
              (CallCount("execute_health_check_workflow") = 0
                 /\ LinesWith(<<"Workflow Status: COMPLETED">>) = {})
    /\ (tool = "rollback" /\ pc = "returned") =>
         /\ CallNames = RollbackCallsExpected
         /\ Branch(loc.stable_rev_report) = "not success" => traffic = pre.traffic
         /\ Branch(loc.redirect_report) # "success" =>
              ~(\E i \in DOMAIN ret : ret[i] = "SUCCESS: Service '")

\* C18 witness: one run in which Deploy returned ERROR and the search for
\* the previous revision returned FAILURE
C18_Witness_ErrorThenFailure ==
    /\ SmartDeployReturned
    /\ loc.da_report.status = "ERROR"
    /\ loc.stable_rev_report.status = "FAILURE"

----------------------------------------------------------------------------
(* Properties of the deploy and build adapters *)

\* C19: whenever the deploy adapter returns FAILURE the deployment is known
\* not to have taken effect: the service has no new revision, and its traffic
\* table and template are as before the call.  (Outcomes in which the effect
\* may have happened are to be ERROR.)
C19_DeployFailureMeansNoEffect ==
    (tool = "smart_deploy" /\ pc = "rollback_after_deploy"
       /\ loc.da_report.status = "FAILURE") =>
        /\ revisions = pre.revisions
        /\ traffic = pre.traffic
        /\ template = pre.template

\* C20: the build adapter's wait is bounded: once it monitors a build it
\* returns a result, even if the build never leaves QUEUED or WORKING, so
\* the Smart-Deploy run goes on to return its report.
C20_BuildWaitIsBounded ==
    (pc = "monitoring") ~> (pc \notin {"monitoring", "sleeping"})

----------------------------------------------------------------------------
(* Properties of the infrastructure tools *)

InfraToolOver(t) == tool = t /\ pc \in {"returned", "raised"}

\* C21: Plan and Apply are independent invocations.  A plan invokes the plan
\* adapter once and never the apply adapter, whatever the plan's outcome; an
\* apply invokes the apply adapter once and never the plan adapter, and needs
\* no plan before it; and each passes to its adapter the service name, the
\* image URI and the region the other one computes from the same arguments.
C21_PlanAndApplyIndependent ==
    /\ InfraToolOver("plan") =>
         /\ CallNames = <<"run_terraform_plan">>
         /\ \A i \in DOMAIN api : api[i].substitutions._COMMAND = PlanCommand
         /\ calls[1].args =
              [new_service_name |-> loc.new_service_name,
               deployment_image_uri |-> apply_final_image_uri(loc.image_uri_to_deploy),
               region |-> loc.region]
    /\ InfraToolOver("apply") =>
         /\ "run_terraform_plan" \notin Range(CallNames)
         /\ CallNames[1] = "run_terraform_apply"
         /\ \A i \in DOMAIN api : api[i].substitutions._COMMAND = ApplyCommand
         /\ calls[1].args =
              [new_service_name |-> loc.new_service_name,
               deployment_image_uri |-> plan_final_image_uri(loc.image_uri_to_deploy),
               region |-> loc.region]

\* An apply with the default image succeeded as the first invocation, no
\* plan before it
C21_Witness_ApplyWithoutPlan ==
    /\ InfraToolOver("apply")
    /\ runs = 1
    /\ ~InfraFailed(loc.infra_report)
    /\ loc.image_uri_to_deploy = <<"LATEST">>
    /\ calls[1].args.deployment_image_uri = DefaultImageUri

----------------------------------------------------------------------------
(* Two Smart-Deploy runs at once *)

\* The Smart-Deploy invocations in flight or over: the running one and the
\* suspended one
SmartDeployFrames == {f \in {Frame, suspended} : f.tool = "smart_deploy"}

\* The argument records of a frame's calls of the adapter fn
ArgsOf(f, fn) == {f.calls[i].args : i \in {j \in DOMAIN f.calls : f.calls[j].fn = fn}}

\* The report lines a run has when its own adapters gave the reports its
\* frame holds and it stands at the frame's position
ReportAlone(f) ==
    LET l == f.loc
        done == Range(l.steps)
        step1 == IF 1 \in done THEN <<ScaLine(l.sca_report)>> ELSE <<>>
        step2 == IF 2 \in done /\ l.bta_report # NoReport
                 THEN <<BtaLine(l.bta_report), TestStatusLine(l.bta_report)>> ELSE <<>>
        step3 == IF 3 \notin done THEN <<>>
                 ELSE IF l.image_uri_with_digest = <<>> THEN <<ScanSkippedLine>>
                 ELSE IF ScanFailed(l.scan_results)
                 THEN <<ScanFailedLine(l.scan_results), ScanErrorHaltLine>>
                 ELSE <<SummaryLine(l.summary)>>
                        \o (IF SummarySaysCritical(l.summary)
                            THEN <<CriticalHaltLine>> ELSE <<>>)
        step4 == IF 4 \notin done THEN <<>>
                 ELSE IF ~DeployFailed(l.da_report) THEN <<DeployLine(l.da_report)>>
                 ELSE IF f.pc = "rollback_after_deploy" THEN <<>>
                 ELSE <<DeployFailedLine(l.da_report), RollbackLine(l.rollback_summary),
                        <<>>, DeployContinuityLine, NextStepsLine>>
        step5 == IF 5 \notin done THEN <<>>
                 ELSE IF ~HealthCheckFailed(l.health_check_raw_data)
                 THEN <<HealthPassedLine>>
                        \o FinalStatusLines(Get(l.da_report, "service_url", None))
                 ELSE IF f.pc = "rollback_after_health" THEN <<HealthFailedLine>>
                 ELSE <<HealthFailedLine, RollbackLine(l.rollback_summary), <<>>,
                        HealthContinuityLine>> \o FinalStatusLines(None)
    IN  step1 \o step2 \o step3 \o step4 \o step5

\* C22: concurrent Smart-Deploy invocations share no mutable state.  Under
\* every interleaving of two runs, each run passes to the build the commit
\* id its own source lookup returned, scans and deploys the image its own
\* build returned, reports the URL its own deploy returned, and its report
\* is the one a run alone has with the same adapter reports.
C22_ConcurrentRunsShareNothing ==
    \A f \in SmartDeployFrames :
        /\ \A a \in ArgsOf(f, "trigger_build_and_monitor") :
               a.commit_sha = Get(f.loc.sca_report, "commit_sha", None)
        /\ \A a \in ArgsOf(f, "get_vulnerability_scan_results") :
               a.image_uri_with_digest = ScanTarget(f.loc.bta_report)
        /\ \A a \in ArgsOf(f, "deploy_to_cloud_run") :
               a.image_uri = Get(f.loc.bta_report, "image_uri_commit", None)
        /\ (f.loc.deployment_url # None) =>
               f.loc.deployment_url = Get(f.loc.da_report, "service_url", None)
        /\ f.final_summary = ReportAlone(f)
        /\ (f.pc = "returned") => f.ret = Join(ReportAlone(f), "\n")

\* One run has returned its full report while the other, started before the
\* first one ended, stands after its own build with a shorter report
C22_Witness_TwoRunsInFlight ==
    /\ tool = "smart_deploy" /\ pc = "returned"
    /\ 5 \in Range(loc.steps)
    /\ suspended.tool = "smart_deploy" /\ suspended.pc = "step3"
    /\ Len(suspended.final_summary) < Len(final_summary)

----------------------------------------------------------------------------
(* Configuration errors *)

MissingIn(args) == \E k \in DOMAIN args : ~Truthy(args[k])

\* C23: a configuration error fails fast.  When an adapter is called with a
\* required identifier missing (project, location, service or revision for
\* the rollback adapters; any parameter of the build), it returns ERROR, no
\* request has been sent, and the call is made once.
C23_ConfigurationErrorFailsFast ==
    /\ (tool = "build_adapter" /\ MissingIn(calls[1].args)) =>
          /\ pc = "returned"
          /\ loc.bta_report.status = "ERROR"
          /\ api = <<>>
          /\ Len(calls) = 1
    /\ (tool = "redirect" /\ MissingIn(calls[1].args)) =>
          /\ loc.redirect_report.status = "ERROR"
          /\ api = <<>>
          /\ Len(calls) = 1
    /\ (tool = "rollback" /\ ~Truthy(ProjectText)) =>
          /\ loc.stable_rev_report.status = "ERROR"
          /\ api = <<>>
          /\ CallCount("get_previous_stable_revision") = 1

----------------------------------------------------------------------------
(* The source a Smart-Deploy run works on *)

\* C24: Smart-Deploy uses the source the caller named.  The source lookup
\* and the build are invoked with the repository and the branch passed to
\* execute_smart_deploy_workflow, and the build gets the commit id the
\* source lookup of the same run returned.
C24_UsesCallersSource ==
    tool = "smart_deploy" =>
        /\ \A a \in ArgsOf(Frame, "get_latest_commit_sha") :
               /\ a.repo_full_name = loc.target_repository_name
               /\ a.branch_name = loc.target_branch_name
        /\ \A a \in ArgsOf(Frame, "trigger_build_and_monitor") :
               /\ a.repo_name \in {loc.target_repository_name,
                                   Last(Split(loc.target_repository_name, "/"))}
               /\ a.branch_name = loc.target_branch_name
               /\ a.commit_sha = Get(loc.sca_report, "commit_sha", None)

----------------------------------------------------------------------------
(* Rollback after a failed deploy *)

\* C25: after the deploy of a run returned a non-Success outcome and the
\* rollback it triggered reported success, the revision that served all
\* traffic before the run's deploy step receives 100 percent of traffic,
\* whether or not the failed deploy created a revision.
C25_FailedDeployRestoresServingRevision ==
    (/\ tool = "smart_deploy" /\ pc = "returned"
     /\ DeployDidNotSucceed
     /\ loc.redirect_report.status = "SUCCESS"
     /\ Len(pre.traffic) = 1) =>
        traffic = <<[revision |-> pre.traffic[1].revision, percent |-> 100]>>

----------------------------------------------------------------------------
(* Test results *)

BuildReported == tool = "smart_deploy" /\ loc.bta_report # NoReport

TestsFailed ==
    Get(Get(loc.bta_report, "test_results", <<>>), "test_status", None) = "FAILED"

\* C26: test results are informational only.  The test summary of the build
\* is in the report whether the build succeeded or not, and a build that
\* returned Success with failed tests does not end the run: step 3 follows.
C26_TestResultsAreInformational ==
    BuildReported =>
        /\ Len(final_summary) >= 3
        /\ final_summary[3] = TestStatusLine(loc.bta_report)
        /\ (loc.bta_report.status = "SUCCESS" /\ TestsFailed) =>
               \/ pc = "step3"
               \/ 3 \in Range(loc.steps)

\* A build succeeded with a failed test, its summary is in the report, and
\* the run went through step 3 and invoked the deploy adapter
C26_Witness_FailedTestsStillDeployed ==
    /\ BuildReported
    /\ loc.bta_report.status = "SUCCESS" /\ TestsFailed
    /\ final_summary[3] = <<"   ", "Test Status: ", "gemini: one test failed">>
    /\ 3 \in Range(loc.steps)
    /\ CallCount("deploy_to_cloud_run") = 1

----------------------------------------------------------------------------
(* The security gate *)

\* The scan of the run succeeded and lists no finding of severity CRITICAL
ScanCleanOfCritical ==
    /\ tool = "smart_deploy"
    /\ loc.scan_results.status = "SUCCESS"
    /\ ~HasCriticalFinding

\* C27: the security gate depends only on whether a CRITICAL finding
\* exists.  When the scan ran successfully and no finding has severity
\* CRITICAL (no finding at all, or only lower severities), the run is not
\* halted for security and the deploy adapter is invoked, whatever wording
\* the summarization returned.
C27_GateDependsOnlyOnCriticalFinding ==
    ScanCleanOfCritical =>
        /\ CriticalHaltLine \notin Range(final_summary)
        /\ (pc = "returned") => CallCount("deploy_to_cloud_run") = 1

----------------------------------------------------------------------------
(* Halting *)

RemediationAdapters ==
    {"deploy_to_cloud_run", "execute_rollback_workflow",
     "get_previous_stable_revision", "redirect_traffic_to_revision"}

\* The run met a cause of a halt before the deploy step: the source lookup,
\* the build or the scan did not succeed, or the run halted for a CRITICAL
\* finding
HaltCauseBeforeDeploy ==
    /\ tool = "smart_deploy"
    /\ \/ loc.sca_report.status \notin {"SUCCESS", "NOT_CALLED"}
       \/ loc.bta_report.status \notin {"SUCCESS", "NOT_CALLED"}
       \/ ScanDidNotSucceed
       \/ CriticalHaltLine \in Range(final_summary)

----------------------------------------------------------------------------
(* The previous stable revision *)

\* The revisions of a listing from the newest to the oldest, by picking
NewestOf(S) == CHOOSE r \in S : \A q \in S : q.create_time <= r.create_time

\* The listing was answered with at least two revisions
ListedAtLeastTwo ==
    /\ tool = "previous_stable"
    /\ GCP_PROJECT_ID # ""
    /\ loc.list_fault = "none"
    /\ Len(loc.listing) >= 2

\* C29: for a list of at least two revisions, in any listing order,
\* get_previous_stable_revision returns Success with the revision created
\* second most recently, and never the one created most recently.
C29_PreviousIsSecondNewest ==
    ListedAtLeastTwo =>
        LET listed == Range(loc.listing)
            newest == NewestOf(listed)
            second == NewestOf(listed \ {newest})
        IN  /\ loc.stable_rev_report.status = "SUCCESS"
            /\ loc.stable_rev_report.previous_stable_revision_name = second.name
            /\ loc.stable_rev_report.previous_stable_revision_name # newest.name

\* Three revisions listed with the oldest first and the newest second; the
\* one listed last is returned
C29_Witness_UnorderedListing ==
    /\ ListedAtLeastTwo
    /\ Len(loc.listing) = 3
    /\ loc.listing[1].create_time < loc.listing[3].create_time
    /\ loc.listing[3].create_time < loc.listing[2].create_time
    /\ loc.stable_rev_report.status = "SUCCESS"
    /\ loc.stable_rev_report.previous_stable_revision_name = loc.listing[3].name

----------------------------------------------------------------------------
(* The order of the steps *)

\* The step an adapter belongs to; the adapters a workflow invokes count
\* with the workflow
StepRank(fn) ==
    CASE fn = "get_latest_commit_sha" -> 1
      [] fn = "trigger_build_and_monitor" -> 2
      [] fn \in {"get_vulnerability_scan_results",
                 "summarize_vulnerabilities_with_gemini"} -> 3
      [] fn = "deploy_to_cloud_run" -> 4
      [] fn \in HealthAdapters -> 5
      [] OTHER -> 6

Invoked(fn) == CallCount(fn) > 0

\* The scan step let the run go on: it was skipped, or it succeeded and the
\* summary did not halt the run
ScanDidNotHalt ==
    /\ loc.scan_results.status \in {"SUCCESS", "NOT_CALLED"}
    /\ ~SummarySaysCritical(loc.summary)

\* C30: the steps of one Smart-Deploy run execute strictly in sequence and
\* only after their predecessor succeeded.  The build is invoked only after
\* the source lookup returned Success, the scan only after the build
\* returned Success, the deploy only after the build returned Success and
\* the scan did not halt, the health check only after the deploy returned
\* Success; each step's adapter is invoked at most once, in the order of the
\* steps, and nothing is invoked after the rollback or once the run has
\* returned a halt.
C30_StepsInSequenceAfterSuccess ==
    tool = "smart_deploy" =>
        /\ \A i, j \in DOMAIN calls :
               i < j => StepRank(calls[i].fn) <= StepRank(calls[j].fn)
        /\ \A fn \in {"get_latest_commit_sha", "trigger_build_and_monitor",
                      "get_vulnerability_scan_results", "deploy_to_cloud_run",
                      "execute_health_check_workflow", "execute_rollback_workflow"} :
               CallCount(fn) <= 1
        /\ Invoked("trigger_build_and_monitor") => loc.sca_report.status = "SUCCESS"
        /\ Invoked("get_vulnerability_scan_results") =>
               loc.bta_report.status = "SUCCESS"
        /\ Invoked("deploy_to_cloud_run") =>
               /\ loc.bta_report.status = "SUCCESS"
               /\ ScanDidNotHalt
        /\ Invoked("execute_health_check_workflow") => loc.da_report.status = "SUCCESS"
        /\ Invoked("execute_rollback_workflow") => pc = "returned"
        /\ (pc = "returned" /\ ~Invoked("deploy_to_cloud_run")) =>
               StepRank(calls[Len(calls)].fn) <= 3

\* A run went through every step in order and rolled back after the health
\* check
C30_Witness_AllStepsThenRollback ==
    /\ tool = "smart_deploy" /\ pc = "returned"
    /\ Len(calls) > 5
    /\ [i \in 1..5 |-> calls[i].fn] =
         <<"get_latest_commit_sha", "trigger_build_and_monitor",
           "get_vulnerability_scan_results", "summarize_vulnerabilities_with_gemini",
           "deploy_to_cloud_run">>
    /\ Invoked("execute_health_check_workflow")
    /\ calls[Len(calls)].fn = "redirect_traffic_to_revision"

----------------------------------------------------------------------------
(* No retry *)

OnceAdapters ==
    {"get_latest_commit_sha", "trigger_build_and_monitor",
     "get_vulnerability_scan_results", "deploy_to_cloud_run",
     "execute_health_check_workflow", "execute_rollback_workflow"}

\* C31: nothing is retried by the orchestrator.  In one Smart-Deploy run the
\* source lookup, the build, the scan adapter, the deploy, the health check
\* and the rollback workflow are each invoked at most once; one rollback
\* workflow, inside a run or as a tool, invokes get_previous_stable_revision
\* exactly once and redirect_traffic_to_revision at most once, whatever the
\* adapters return.
C31_NothingIsRetried ==
    /\ (tool = "smart_deploy") =>
           \A fn \in OnceAdapters : CallCount(fn) <= 1
    /\ (tool \in {"smart_deploy", "rollback"}) =>
           /\ CallCount("get_previous_stable_revision")
                = CallCount("execute_rollback_workflow")
           /\ CallCount("redirect_traffic_to_revision")
                <= CallCount("execute_rollback_workflow")
    /\ (tool = "rollback") => CallCount("execute_rollback_workflow") = 1

\* C31 witness: a run whose deploy failed and whose rollback failed at the
\* traffic switch has returned, each of them invoked once
C31_Witness_FailedRollbackNotRetried ==
    /\ SmartDeployReturned
    /\ DeployFailed(loc.da_report)
    /\ loc.redirect_report.status = "ERROR"
    /\ CallCount("deploy_to_cloud_run") = 1
    /\ CallCount("execute_rollback_workflow") = 1
    /\ CallCount("redirect_traffic_to_revision") = 1

----------------------------------------------------------------------------
(* The query loop of the scan adapter *)

\* The scan adapter was called as a tool with a project and an image digest
ScanQueried ==
    /\ tool = "scan_adapter"
    /\ Truthy(ProjectText)
    /\ Contains(loc.image_uri_with_digest, <<"@", "sha256:">>)

\* The queries, in order, at which the service raised or listed a finding
Eventful == {k \in DOMAIN loc.queries :
                loc.queries[k].raises \/ loc.queries[k].occurrences # <<>>}

\* C32: get_vulnerability_scan_results queries the occurrence list at most 3
\* times per call.  It stops at the first query that yields a finding and
\* returns SUCCESS with exactly that query's findings; when all 3 queries are
\* empty it returns SUCCESS with an empty list and count 0 after exactly 3
\* queries; a query that raises yields ERROR and no further query.
C32_AtMostThreeQueries ==
    ScanQueried =>
        /\ Len(api) <= 3
        /\ (Eventful = {}) =>
               /\ Len(api) = 3
               /\ loc.scan_results.status = "SUCCESS"
               /\ loc.scan_results.vulnerabilities = <<>>
               /\ loc.scan_results.vulnerability_count = 0
        /\ \A k \in Eventful :
               (\A j \in Eventful : k <= j) =>
                   /\ Len(api) = k
                   /\ IF loc.queries[k].raises
                      THEN loc.scan_results.status = "ERROR"
                      ELSE /\ loc.scan_results.status = "SUCCESS"
                           /\ loc.scan_results.vulnerabilities
                                = loc.queries[k].occurrences
                           /\ loc.scan_results.vulnerability_count
                                = Len(loc.queries[k].occurrences)

\* C32 witness: the first query was empty, the second listed one finding and
\* a third would have listed two; the call made two queries and returned one
\* finding
C32_Witness_StopsAtSecondQuery ==
    /\ ScanQueried
    /\ loc.queries[1].occurrences = <<>> /\ ~loc.queries[1].raises
    /\ Len(loc.queries[2].occurrences) = 1
    /\ Len(loc.queries[3].occurrences) = 2
    /\ Len(api) = 2
    /\ loc.scan_results.vulnerability_count = 1

----------------------------------------------------------------------------
(* The health check workflow *)

\* Where in the calls of the invocation the health check workflow starts
HealthWorkflowAt == {i \in DOMAIN calls : calls[i].fn = "execute_health_check_workflow"}

----------------------------------------------------------------------------
(* The outcome of a Terraform trigger run *)

\* A Terraform tool has returned the report of its trigger run
TerraformReturned == tool \in {"plan", "apply"} /\ pc = "returned"

\* C34: the outcome of a Terraform trigger run.  The status is SUCCESS
\* exactly when the build finished with success and log content was
\* obtained, SUCCESS_NO_LOGS exactly when it finished with success and no
\* log content was obtained, FAILURE exactly when it finished without
\* success, ERROR exactly when running the trigger raised; log_retrieved is
\* true exactly when log content was obtained, even if saving it to the log
\* bucket failed.
C34_TerraformOutcome ==
    TerraformReturned =>
        LET env == loc.terraform_env
            report == loc.infra_report
        IN  /\ (report.status = "SUCCESS") <=> (env.outcome = "SUCCESS" /\ env.logs)
            /\ (report.status = "SUCCESS_NO_LOGS")
                 <=> (env.outcome = "SUCCESS" /\ ~env.logs)
            /\ (report.status = "FAILURE") <=> (env.outcome \notin {"SUCCESS", "raise"})
            /\ (report.status = "ERROR") <=> (env.outcome = "raise")
            /\ Get(report, "log_retrieved", FALSE) = env.logs
            /\ (report.status # "ERROR") => "log_retrieved" \in DOMAIN report

\* C34 witness: the build succeeded, its log was read and could not be saved
\* to the bucket; the report is SUCCESS with log_retrieved true
C34_Witness_LogReadButNotSaved ==
    /\ TerraformReturned
    /\ loc.terraform_env.outcome = "SUCCESS"
    /\ loc.terraform_env.logs /\ ~loc.terraform_env.saved
    /\ loc.infra_report.status = "SUCCESS"
    /\ loc.infra_report.log_retrieved

----------------------------------------------------------------------------
(* What the report says of a rollback *)

\* The report claims the service was rolled back and kept running
ClaimsRolledBack ==
    \E i \in DOMAIN final_summary :
        final_summary[i] \in {DeployContinuityLine, HealthContinuityLine}

\* C35: a Smart-Deploy report states that service continuity was maintained
\* and that the service was rolled back to the previous stable version only
\* if the rollback workflow invoked in that run reported success; when the
\* rollback failed (no previous revision, or the traffic switch failed) the
\* report does not claim the service was rolled back.
C35_RolledBackClaimedOnlyOnSuccess ==
    (SmartDeployReturned /\ ClaimsRolledBack) =>
        /\ CallCount("execute_rollback_workflow") = 1
        /\ loc.redirect_report.status = "SUCCESS"

----------------------------------------------------------------------------
(* The image that is scanned and the image that is deployed *)

\* C36: whenever both the scan and the deploy execute in one Smart-Deploy
\* run, the image reference passed to the deploy identifies the artifact that
\* was scanned: it has the repository name of the scanned reference, taken
\* from the same image entry of the build, and is pinned to the scanned
\* digest.
C36_DeployedImageIsScannedImage ==
    (tool = "smart_deploy") =>
        \A a \in ArgsOf(Frame, "get_vulnerability_scan_results") :
          \A b \in ArgsOf(Frame, "deploy_to_cloud_run") :
            LET scanned == a.image_uri_with_digest
                image_base_name == Split(scanned, "@")[1]
                pinned == SubSeq(scanned, Len(image_base_name) + 1, Len(scanned))
            IN  /\ Truthy(b.image_uri)
                /\ Len(b.image_uri) >= Len(image_base_name)
                /\ SubSeq(b.image_uri, 1, Len(image_base_name)) = image_base_name
                /\ Contains(b.image_uri, pinned)

----------------------------------------------------------------------------
(* Streaming requests *)

\* The streaming requests in flight or finished and not yet discarded
StreamFrames == {f \in {Frame, suspended} : f.tool = "stream"}

\* No stream_agent_response is between its start and its end
NoStreamInFlight ==
    \A f \in {Frame, suspended} : f.pc \in {"idle", "returned", "raised"}

\* C37: under any interleaving of concurrent streaming requests, once every
\* stream_agent_response has finished sys.stdout is the original one, in
\* place before any request started (no capture of a finished request stays
\* installed), and a status line printed during one request is delivered
\* only to that request's stream.
C37_StdoutRestoredAndLinesPrivate ==
    /\ NoStreamInFlight => sys_stdout = 0
    /\ \A f \in StreamFrames :
         \A i \in DOMAIN f.ret :
             f.ret[i].by \in {0, f.loc.request}

\* C38: every invocation of stream_agent_response emits exactly one 'done'
\* event and it is the last event of the stream, on every path: the runner
\* being unavailable, an exception during the run, and normal completion.
\* On normal completion exactly one 'response' event is emitted, after every
\* status event and before 'done'.
C38_OneDoneEventLast ==
    \A f \in StreamFrames :
        (f.pc \in {"returned", "raised"}) =>
            /\ f.ret # <<>>
            /\ \A i \in DOMAIN f.ret : (f.ret[i].type = "done") <=> (i = Len(f.ret))
            /\ f.loc.final =>
                 /\ Len(f.ret) >= 2
                 /\ \A i \in DOMAIN f.ret :
                        (f.ret[i].type = "response") <=> (i = Len(f.ret) - 1)

----------------------------------------------------------------------------
(* The log polling loop of the infrastructure agent *)

\* The status last polled is one Cloud Build gives to a build that has ended
PolledFinished == loc.build \notin {"NONE", "QUEUED", "WORKING"}

\* C39: _get_build_logs_from_api polls the build at most 30 times.  It
\* returns the extracted logs as soon as a poll sees a terminal build status
\* with logs available, stops polling at the first terminal status even when
\* no logs are found, and returns None after 30 polls if the build never
\* reaches a terminal status or every poll raises.
C39_LogPollingBounded ==
    (tool = "build_logs") =>
        /\ Len(api) <= 30
        /\ (pc = "polling") => ~PolledFinished
        /\ (pc = "returned" /\ api # <<>>) =>
               /\ (ret # None) => PolledFinished
               /\ ~PolledFinished => (Len(api) = 30 /\ ret = None)

====
